---- MODULE Spec2Model ----
(***************************************************************************)
(* The credential and token lifecycle of pic2list: the eBay OAuth routes   *)
(* (routes/ebay-oauth.js), the credential middleware (middleware/auth.js), *)
(* the configuration route (routes/config.js) and the secret vault         *)
(* (crypto-utils.js).                                                      *)
(*                                                                         *)
(* Values.  A JavaScript string is a 1-tuple <<k>> of a natural number, k  *)
(* standing for the characters; <<0>> is the empty string; null and        *)
(* undefined are the empty tuple.  A stored ciphertext "iv:tag:data" is    *)
(* the 3-tuple of its segments.  A timestamp is <<t>>, t in seconds.       *)
(*                                                                         *)
(* Steps.  A handler runs without interruption between two awaits of a     *)
(* network call; a database statement takes effect where it is issued.     *)
(* A request is in flight (reqs) while it awaits the provider.             *)
(*                                                                         *)
(* Sessions.  session is the session store.  req.session is the request's  *)
(* own object; what a handler assigns to it reaches the store when the     *)
(* response is sent.                                                       *)
(***************************************************************************)
EXTENDS Integers, Sequences, FiniteSets, TLC

VARIABLES
    users,      \* the users table: id -> row
    session,    \* the session store: session id -> session record
    env,        \* process.env: which of the provider settings are set
    now,        \* Date.now(), in seconds
    issued,     \* how many state values crypto.randomBytes has produced
    reqs,       \* the requests awaiting the provider: slot -> continuation
    last,       \* the response sent most recently
    resolved,   \* the outcome of the credential resolution pass run most recently
    vault,      \* the call of encrypt or decrypt made most recently
    serial      \* the id the users table assigned most recently (SERIAL)

vars == <<users, session, env, now, issued, reqs, last, resolved, vault, serial>>

----------------------------------------------------------------------------
(* Bounds of the model *)

MaxIssued == 2          \* state values issued in one run
MaxNow == 300           \* the clock stops here
MaxPlain == 3           \* the plaintexts handed to encrypt: <<1>> .. <<MaxPlain>>
MaxIV == 2              \* the nonces crypto.randomBytes(12) may return: 0 .. MaxIV
MaxUsers == 3           \* the ids the users table assigns: 1 .. MaxUsers

(* Program constants *)

EXPIRY_BUFFER == 300            \* 5 * 60 * 1000 ms
DEFAULT_EXPIRES_IN == 7200      \* expires_in || 7200

----------------------------------------------------------------------------
(* JavaScript values *)

Null == <<>>
EmptyStr == <<0>>

\* JavaScript truthiness of a string-or-null value
Truthy(v) == v # Null /\ v # EmptyStr

\* a || b
OrElse(a, b) == IF Truthy(a) THEN a ELSE b

----------------------------------------------------------------------------
(* crypto-utils.js *)

Modulus == 64

\* the AES-GCM key stream of a nonce, and the authentication tag
KeyStream(iv) == (7 * iv + 3) % Modulus
AuthTag(iv, data) == (5 * data + 3 * iv + 1) % Modulus

\* the nonce the handlers' encryptions use: crypto.randomBytes(12)
randomIV == 1

\* mutant: only null is left unencrypted, the empty string is encrypted
encrypt_EmptyEncrypted(plaintext, iv) ==
    IF plaintext = Null THEN Null
    ELSE LET data == (plaintext[1] + KeyStream(iv)) % Modulus
         IN  <<iv, AuthTag(iv, data), data>>

\* a segment is written in base64 without spare bits: its text is its value
encrypt(plaintext, iv) ==
    IF ~Truthy(plaintext) THEN Null
    ELSE LET data == (plaintext[1] + KeyStream(iv)) % Modulus
         IN  <<iv, AuthTag(iv, data), data>>

\* Buffer.from(segment, 'base64'): the text of a segment is its bytes plus
\* Modulus times the bits and characters that carry no byte (the spare bits
\* of the last character, the padding); the decoder drops them
Decode(segment) == segment % Modulus

\* an exception inside the try block
Thrown == <<-1>>

\* the try block of decrypt: a token of fewer than three segments leaves
\* ciphertext undefined and decipher.update throws; a tag that does not
\* authenticate nonce and ciphertext makes decipher.final throw
Decipher(stored) ==
    IF Len(stored) < 3 THEN Thrown
    ELSE LET iv == Decode(stored[1])
             tag == Decode(stored[2])
             data == Decode(stored[3])
         IN  IF tag # AuthTag(iv, data) THEN Thrown
             ELSE <<(data + Modulus - KeyStream(iv)) % Modulus>>

decrypt(stored) ==
    IF ~Truthy(stored) THEN Null
    ELSE IF Decipher(stored) = Thrown THEN Null
    ELSE Decipher(stored)

----------------------------------------------------------------------------
(* The users table (setup-db.js) and the sessions *)

OwnerId == 1
SubUserId == 2
Roles == {"admin", "publisher", "operator"}
Sids == {1, 2}
Slots == {1, 2}

\* a row as signup (routes/auth.js) and sub-user creation (routes/users.js)
\* insert it: no credential column is set
NewUser(role, accountId, firstName) ==
    [ role |-> role, account_id |-> accountId, first_name |-> firstName,
      example_template |-> Null,
      ebay_token |-> Null, ebay_client_id |-> Null, ebay_client_secret |-> Null,
      ebay_oauth_access_token |-> Null, ebay_oauth_refresh_token |-> Null,
      ebay_oauth_token_expiry |-> Null, ebay_oauth_username |-> Null ]

\* a session without a logged-in user
NoSession == [userId |-> 0, role |-> "", accountId |-> 0, ebayOAuthState |-> Null]

\* req.userConfig before loadUserConfig has filled it
EmptyConfig ==
    [ ebayToken |-> Null, ebayClientId |-> Null, ebayClientSecret |-> Null,
      ebayOAuthToken |-> Null, ebayOAuthConnected |-> FALSE,
      ebayOAuthUsername |-> Null ]

IdleReq ==
    [pc |-> "idle", sid |-> 0, role |-> "", accountId |-> 0, refreshToken |-> Null,
     query |-> [error |-> Null, state |-> Null, code |-> Null], savedState |-> Null,
     userConfig |-> EmptyConfig, wrote |-> FALSE, session |-> NoSession,
     target |-> 0, newRole |-> ""]

NoQuery == [error |-> Null, state |-> Null, code |-> Null]

\* a response without a JSON body of interest; a field that is not in the body
\* is null
NoView ==
    [ first_name |-> Null, example_template |-> Null, role |-> "",
      ebay_token |-> Null, ebay_client_id |-> Null, ebay_client_secret |-> Null ]

NoResponse ==
    [kind |-> "none", sid |-> 0, query |-> NoQuery, savedState |-> Null,
     status |-> "none", tokenCalls |-> 0, wrote |-> FALSE, body |-> NoView]

\* no resolution pass has run
NoPass ==
    [outcome |-> "none", attached |-> FALSE, userConfig |-> EmptyConfig,
     calls |-> 0, wrote |-> FALSE]

\* neither encrypt nor decrypt has been called
NoCall == [op |-> "none", plaintext |-> Null, stored |-> Null, change |-> "none",
           output |-> Null]

\* the settings of process.env the routes read
Envs ==
    { [EBAY_APP_CLIENT_ID |-> TRUE, EBAY_APP_CLIENT_SECRET |-> TRUE, EBAY_RUNAME |-> TRUE],
      [EBAY_APP_CLIENT_ID |-> TRUE, EBAY_APP_CLIENT_SECRET |-> FALSE, EBAY_RUNAME |-> TRUE],
      [EBAY_APP_CLIENT_ID |-> TRUE, EBAY_APP_CLIENT_SECRET |-> TRUE, EBAY_RUNAME |-> FALSE],
      [EBAY_APP_CLIENT_ID |-> FALSE, EBAY_APP_CLIENT_SECRET |-> TRUE, EBAY_RUNAME |-> TRUE] }

\* the owner has signed up and has created one sub-user; nobody is logged in
InitWith(roles, envs) ==
    /\ \E role \in roles :
          users = (OwnerId :> NewUser("admin", OwnerId, <<5>>))
                  @@ (SubUserId :> NewUser(role, OwnerId, <<6>>))
    /\ session = [s \in Sids |-> NoSession]
    /\ env \in envs
    /\ now = 0
    /\ issued = 0
    /\ reqs = [r \in Slots |-> IdleReq]
    /\ last = NoResponse
    /\ resolved = NoPass
    /\ vault = NoCall
    /\ serial = SubUserId

----------------------------------------------------------------------------
(* Responses *)

\* the response a handler sends; wrote tells whether the step changed the table
Respond(kind, sid, query, savedState, status, tokenCalls) ==
    last' = [ kind |-> kind, sid |-> sid, query |-> query,
              savedState |-> savedState, status |-> status,
              tokenCalls |-> tokenCalls, wrote |-> (users' # users),
              body |-> NoView ]

\* the slot of a request that has been answered
Release(r) == reqs' = [reqs EXCEPT ![r] = IdleReq]

----------------------------------------------------------------------------
(* routes/auth.js: login *)

Login(u) ==
    /\ u \in DOMAIN users
    /\ u \in Sids
    /\ session' = [session EXCEPT ![u] =
                      [@ EXCEPT !.userId = u, !.role = users[u].role,
                                !.accountId = users[u].account_id]]
    /\ UNCHANGED <<users, env, vault, serial, now, issued, reqs, last, resolved>>

Tick ==
    /\ now + EXPIRY_BUFFER <= MaxNow
    /\ now' = now + EXPIRY_BUFFER
    /\ UNCHANGED <<users, session, env, vault, serial, issued, reqs, last, resolved>>

\* UPDATE users SET ... WHERE id = $n: no row, no change
Put(table, id, row) ==
    IF id \in DOMAIN table THEN [table EXCEPT ![id] = row] ELSE table

----------------------------------------------------------------------------
(* routes/ebay-oauth.js: GET /initiate *)

\* mutant: any role passes
requireRole_AnyRole(sessionRole, roles) == sessionRole # ""

\* requireRole(...roles), middleware/auth.js
requireRole(sessionRole, roles) == sessionRole # "" /\ sessionRole \in roles

\* the state value of the n-th call of crypto.randomBytes(16): never repeated
NewState(n) == <<n>>

\* mutant: a pending state is not overwritten
StoreOAuthState_KeepPending(sess, sid, state) ==
    IF Truthy(sess[sid].ebayOAuthState) THEN sess
    ELSE [sess EXCEPT ![sid].ebayOAuthState = state]

\* req.session.ebayOAuthState = state
StoreOAuthState(sess, sid, state) == [sess EXCEPT ![sid].ebayOAuthState = state]

\* mutant: the redirect identifier is not looked at
InitiateConfigured_ClientIdOnly == env.EBAY_APP_CLIENT_ID

\* if (!clientId || !ruName), negated
InitiateConfigured == env.EBAY_APP_CLIENT_ID /\ env.EBAY_RUNAME

Initiate(r, sid, sess) ==
    LET configured == InitiateConfigured
        allowed == requireRole(sess[sid].role, {"admin"})
    IN  /\ (allowed /\ configured) => issued < MaxIssued
        /\ session' = IF allowed /\ configured
                      THEN StoreOAuthState(sess, sid, NewState(issued + 1))
                      ELSE sess
        /\ issued' = IF allowed /\ configured THEN issued + 1 ELSE issued
        /\ users' = users
        /\ Respond("initiate", sid, NoQuery, Null,
                   IF ~allowed THEN "403"
                   ELSE IF ~configured THEN "500_not_configured"
                   ELSE "redirect_authorize", 0)
        /\ Release(r)
        /\ UNCHANGED <<env, vault, serial, now>>

----------------------------------------------------------------------------
(* routes/ebay-oauth.js: GET /callback *)

AccessDenied == <<1>>        \* error=access_denied
ConsentDeclined == <<2>>     \* error=consent_declined
OtherError == <<3>>          \* any other error parameter

\* mutant: the state is not deleted
DeleteOAuthState_Kept(sess, sid) == sess

\* delete req.session.ebayOAuthState
DeleteOAuthState(sess, sid) == [sess EXCEPT ![sid].ebayOAuthState = Null]

\* mutant: a missing state parameter passes the state check
CallbackBranch_StateOptional(query, savedState) ==
    IF query.error = AccessDenied \/ query.error = ConsentDeclined THEN "declined"
    ELSE IF Truthy(query.state) /\ query.state # savedState THEN "invalid_state"
    ELSE IF ~Truthy(query.code) THEN "declined"
    ELSE IF ~(env.EBAY_APP_CLIENT_ID /\ env.EBAY_APP_CLIENT_SECRET /\ env.EBAY_RUNAME)
         THEN "server_error"
    ELSE "exchange"

\* mutant: the state is validated before the denial is looked at
CallbackBranch_StateFirst(query, savedState) ==
    IF ~Truthy(savedState) \/ query.state # savedState THEN "invalid_state"
    ELSE IF query.error = AccessDenied \/ query.error = ConsentDeclined THEN "declined"
    ELSE IF ~Truthy(query.code) THEN "declined"
    ELSE IF ~(env.EBAY_APP_CLIENT_ID /\ env.EBAY_APP_CLIENT_SECRET /\ env.EBAY_RUNAME)
         THEN "server_error"
    ELSE "exchange"

\* the branches before the token exchange, in the order of the code
CallbackBranch(query, savedState) ==
    IF query.error = AccessDenied \/ query.error = ConsentDeclined THEN "declined"
    ELSE IF ~Truthy(savedState) \/ query.state # savedState THEN "invalid_state"
    ELSE IF ~Truthy(query.code) THEN "declined"
    ELSE IF ~(env.EBAY_APP_CLIENT_ID /\ env.EBAY_APP_CLIENT_SECRET /\ env.EBAY_RUNAME)
         THEN "server_error"
    ELSE "exchange"

\* the handler up to its first await: the request is answered, or awaits the
\* token endpoint
Callback(r, sid, sess, query) ==
    LET savedState == sess[sid].ebayOAuthState
        branch == CallbackBranch(query, savedState)
    IN  /\ users' = users
        /\ IF branch = "exchange"
           THEN /\ reqs' = [reqs EXCEPT ![r] =
                               [IdleReq EXCEPT !.pc = "exchange", !.sid = sid,
                                               !.query = query,
                                               !.savedState = savedState,
                                               !.session =
                                                   DeleteOAuthState(sess, sid)[sid]]]
                /\ session' = session
                /\ last' = last
           ELSE /\ session' = DeleteOAuthState(sess, sid)
                /\ Respond("callback", sid, query, savedState, branch, 0)
                /\ Release(r)
        /\ UNCHANGED <<env, vault, serial, now, issued>>

\* what the token endpoint may answer
AccessTokens == {<<11>>, <<12>>}
RefreshTokens == {<<21>>, <<22>>}
ExpiresIns == {Null, <<300>>}
Usernames == {<<41>>}

TokenResponses ==
    { t \in [ fetch : {"resolved", "rejected"}, ok : BOOLEAN, json : BOOLEAN,
              access_token : {Null} \cup AccessTokens,
              refresh_token : {Null} \cup RefreshTokens,
              expires_in : ExpiresIns ] :
        /\ t.fetch = "rejected" => (~t.ok /\ ~t.json)
        /\ ~t.json => (t.access_token = Null /\ t.refresh_token = Null
                         /\ t.expires_in = Null)
        /\ t.access_token = Null => (t.refresh_token = Null /\ t.expires_in = Null)
        /\ ~t.ok => t.access_token = Null }

\* what the identity endpoint may answer: the fetch is rejected; the answer is
\* not 2xx, and its body is not read; the body of a 2xx answer is not JSON; it
\* is JSON, with or without a username
IdentityResponses ==
    { i \in [ fetch : {"resolved", "rejected"}, ok : BOOLEAN, json : BOOLEAN,
              username : {Null} \cup Usernames ] :
        /\ i.fetch = "rejected" => ~i.ok
        /\ ~i.ok => ~i.json
        /\ ~i.json => i.username = Null }

\* lines 99-110: ebayUsername, null unless a 2xx answer carries a username
IdentityLabel(idresp) ==
    IF idresp.fetch = "resolved" /\ idresp.ok /\ idresp.json
    THEN OrElse(idresp.username, Null)
    ELSE Null

\* mutant: the lifetime is stored as it came, not added to the clock
TokenExpiry_Relative(expires_in, t) == <<OrElse(expires_in, <<DEFAULT_EXPIRES_IN>>)[1]>>

\* new Date(Date.now() + (expires_in || 7200) * 1000)
TokenExpiry(expires_in, t) == <<t + OrElse(expires_in, <<DEFAULT_EXPIRES_IN>>)[1]>>

\* lines 70-91 and the catch: how the exchange ends
ExchangeStatus(resp, dbok) ==
    IF resp.fetch = "rejected" \/ ~resp.json THEN "server_error"
    ELSE IF ~resp.ok \/ ~Truthy(resp.access_token) THEN "token_exchange"
    ELSE IF ~dbok THEN "server_error"
    ELSE "success"

\* mutant: without a label nothing is stored
CallbackUpdate_LabelRequired(row, resp, username, t) ==
    IF username = Null THEN row
    ELSE [row EXCEPT
            !.ebay_oauth_access_token = encrypt(resp.access_token, randomIV),
            !.ebay_oauth_refresh_token =
                IF Truthy(resp.refresh_token) THEN encrypt(resp.refresh_token, randomIV)
                ELSE Null,
            !.ebay_oauth_token_expiry = TokenExpiry(resp.expires_in, t),
            !.ebay_oauth_username = username]

\* UPDATE users SET the four OAuth columns (lines 114-129)
CallbackUpdate(row, resp, username, t) ==
    [row EXCEPT
        !.ebay_oauth_access_token = encrypt(resp.access_token, randomIV),
        !.ebay_oauth_refresh_token =
            IF Truthy(resp.refresh_token) THEN encrypt(resp.refresh_token, randomIV)
            ELSE Null,
        !.ebay_oauth_token_expiry = TokenExpiry(resp.expires_in, t),
        !.ebay_oauth_username = username]

\* mutant: the callback writes the row of the session's user
CallbackTarget_Self(sess, sid) == sess[sid].userId

\* the row the callback writes: WHERE id = req.session.accountId
CallbackTarget(sess, sid) == sess[sid].accountId

\* the response is sent: the request's session object is written to the store
SaveSession(sess, sid, own) == [sess EXCEPT ![sid] = own]

\* the token endpoint answers; identity lookup; the UPDATE; the redirect
CallbackExchange(r, resp, username, dbok) ==
    /\ reqs[r].pc = "exchange"
    /\ session' = SaveSession(session, reqs[r].sid, reqs[r].session)
    /\ LET sid == reqs[r].sid
           status == ExchangeStatus(resp, dbok)
           id == CallbackTarget(session', sid)
       IN  /\ users' = IF status = "success"
                       THEN Put(users, id, CallbackUpdate(users[id], resp, username, now))
                       ELSE users
           /\ Respond("callback", sid, reqs[r].query, reqs[r].savedState, status, 1)
    /\ Release(r)
    /\ UNCHANGED <<env, vault, serial, now, issued, resolved>>

----------------------------------------------------------------------------
(* routes/ebay-oauth.js: POST /disconnect *)

\* mutant: the refresh token is not cleared
DisconnectUpdate_KeepsRefresh(row) ==
    [row EXCEPT !.ebay_oauth_access_token = Null, !.ebay_oauth_token_expiry = Null,
                !.ebay_oauth_username = Null]

\* mutant: the expiry is cleared, the access token is not
DisconnectUpdate_KeepsAccess(row) ==
    [row EXCEPT !.ebay_oauth_refresh_token = Null, !.ebay_oauth_token_expiry = Null,
                !.ebay_oauth_username = Null]

\* UPDATE users SET the four OAuth columns = NULL (lines 142-151)
DisconnectUpdate(row) ==
    [row EXCEPT !.ebay_oauth_access_token = Null, !.ebay_oauth_refresh_token = Null,
                !.ebay_oauth_token_expiry = Null, !.ebay_oauth_username = Null]

Disconnect(r, sid, sess, dbok) ==
    LET allowed == requireRole(sess[sid].role, {"admin"})
        id == sess[sid].accountId
    IN  /\ session' = sess
        /\ users' = IF allowed /\ dbok THEN Put(users, id, DisconnectUpdate(users[id]))
                    ELSE users
        /\ Respond("disconnect", sid, NoQuery, Null,
                   IF ~allowed THEN "403" ELSE IF ~dbok THEN "500" ELSE "success", 0)
        /\ Release(r)
        /\ UNCHANGED <<env, vault, serial, now, issued>>

----------------------------------------------------------------------------
(* routes/config.js: GET /api/config *)

\* plain.substring(0, 6) + '...' + plain.slice(-4): the ends of the plaintext
Preview(plain) == <<100 + (plain[1] % 10)>>

\* mutant: a stored value is reported set without being decrypted
mask_Unchecked(enc) ==
    IF ~Truthy(enc) THEN <<FALSE, EmptyStr>>
    ELSE <<TRUE, Preview(<<enc[3]>>)>>

\* mask(enc): { set, preview }
mask(enc) ==
    IF ~Truthy(enc) THEN <<FALSE, EmptyStr>>
    ELSE IF ~Truthy(decrypt(enc)) THEN <<FALSE, EmptyStr>>
    ELSE <<TRUE, Preview(decrypt(enc))>>

\* mutant: the key previews are added for every role
ConfigResponse_KeysForAll(profile, owner, role) ==
    [ first_name |-> OrElse(profile.first_name, EmptyStr),
      example_template |-> OrElse(owner.example_template, EmptyStr),
      role |-> role,
      ebay_token |-> mask(owner.ebay_token),
      ebay_client_id |-> mask(owner.ebay_client_id),
      ebay_client_secret |-> mask(owner.ebay_client_secret) ]

\* the JSON body of lines 36-50 (first_name stands for the profile fields)
ConfigResponse(profile, owner, role) ==
    [ first_name |-> OrElse(profile.first_name, EmptyStr),
      example_template |-> OrElse(owner.example_template, EmptyStr),
      role |-> role,
      ebay_token |-> IF role = "admin" THEN mask(owner.ebay_token) ELSE Null,
      ebay_client_id |-> IF role = "admin" THEN mask(owner.ebay_client_id) ELSE Null,
      ebay_client_secret |->
          IF role = "admin" THEN mask(owner.ebay_client_secret) ELSE Null ]

\* ownerResult.rows[0] || {}
OwnerRowOrEmpty(id) ==
    IF id \in DOMAIN users THEN users[id] ELSE NewUser("", 0, Null)

ConfigGet(r, sid, sess, dbok) ==
    LET userId == sess[sid].userId
        status == IF ~dbok THEN "500"
                  ELSE IF userId \notin DOMAIN users THEN "404"
                  ELSE "200"
    IN  /\ session' = sess
        /\ users' = users
        /\ last' = [ NoResponse EXCEPT
                        !.kind = "config_get", !.sid = sid, !.status = status,
                        !.body = IF status = "200"
                                 THEN ConfigResponse(users[userId],
                                                     OwnerRowOrEmpty(sess[sid].accountId),
                                                     sess[sid].role)
                                 ELSE NoView ]
        /\ Release(r)
        /\ UNCHANGED <<env, vault, serial, now, issued>>

----------------------------------------------------------------------------
(* routes/config.js: PUT /api/config *)

\* a body field: undefined when the body does not carry it
Field(body, f) == IF f \in DOMAIN body THEN body[f] ELSE Null

KeyColumns == {"ebay_token", "ebay_client_id", "ebay_client_secret"}

\* 1. profile fields, written to the requesting user's row (first_name stands
\*    for the four profile columns, which the loop treats alike)
ProfileUpdate(row, body) ==
    IF "first_name" \in DOMAIN body
    THEN [row EXCEPT !.first_name = OrElse(body["first_name"], Null)]
    ELSE row

\* if (ebay_token || ebay_client_id || ebay_client_secret)
CarriesKeys(body) == \E f \in KeyColumns : Truthy(Field(body, f))

\* the value a key column is set to: val ? encrypt(val) : null
KeyValue(row, body, f) ==
    IF f \in DOMAIN body THEN encrypt(OrElse(body[f], Null), randomIV) ELSE row[f]

\* mutant: storing manual keys also drops the OAuth connection
KeyUpdate_ResetsOAuth(row, body) ==
    [row EXCEPT !.ebay_token = KeyValue(row, body, "ebay_token"),
                !.ebay_client_id = KeyValue(row, body, "ebay_client_id"),
                !.ebay_client_secret = KeyValue(row, body, "ebay_client_secret"),
                !.ebay_oauth_access_token = Null,
                !.ebay_oauth_refresh_token = Null,
                !.ebay_oauth_token_expiry = Null, !.ebay_oauth_username = Null]

\* 2. eBay keys, written to the account owner's row
KeyUpdate(row, body) ==
    [row EXCEPT !.ebay_token = KeyValue(row, body, "ebay_token"),
                !.ebay_client_id = KeyValue(row, body, "ebay_client_id"),
                !.ebay_client_secret = KeyValue(row, body, "ebay_client_secret")]

\* 3. template, written to the account owner's row
TemplateUpdate(row, body) ==
    [row EXCEPT !.example_template = OrElse(body["example_template"], Null)]

\* the row the key and template statements write: WHERE id = accountId
ConfigTarget(sess, sid) == sess[sid].accountId

ConfigPut(r, sid, sess, body, dbok) ==
    LET role == sess[sid].role
        userId == sess[sid].userId
        id == ConfigTarget(sess, sid)
        keysDenied == CarriesKeys(body) /\ role # "admin"
        templateDenied == "example_template" \in DOMAIN body /\ role = "operator"
        t1 == Put(users, userId, ProfileUpdate(users[userId], body))
        t2 == IF CarriesKeys(body) THEN Put(t1, id, KeyUpdate(t1[id], body)) ELSE t1
        t3 == IF "example_template" \in DOMAIN body
              THEN Put(t2, id, TemplateUpdate(t2[id], body)) ELSE t2
    IN  /\ session' = sess
        /\ users' = IF ~dbok THEN users
                    ELSE IF keysDenied THEN t1
                    ELSE IF templateDenied THEN t2
                    ELSE t3
        /\ Respond("config_put", sid, NoQuery, Null,
                   IF ~dbok THEN "500"
                   ELSE IF keysDenied THEN "403_keys"
                   ELSE IF templateDenied THEN "403_template"
                   ELSE "success", 0)
        /\ Release(r)
        /\ UNCHANGED <<env, vault, serial, now, issued>>

----------------------------------------------------------------------------
(* routes/users.js: POST /, PUT /:id, DELETE /:id; routes/auth.js: POST /signup.
   Every statement is awaited: a request is in flight between its statements *)

\* the handler is entered: requireRole('admin'), then its first statement is
\* issued and awaited
EnterUsers(r, sid, sess, kind, refused, target, newRole, pc) ==
    LET allowed == requireRole(sess[sid].role, {"admin"})
    IN  /\ users' = users
        /\ IF ~allowed \/ refused
           THEN /\ session' = sess
                /\ Respond(kind, sid, NoQuery, Null,
                           IF ~allowed THEN "403" ELSE "400_own", 0)
                /\ Release(r)
           ELSE /\ reqs' = [reqs EXCEPT ![r] =
                               [IdleReq EXCEPT !.pc = pc, !.sid = sid,
                                               !.target = target,
                                               !.newRole = newRole,
                                               !.session = sess[sid]]]
                /\ session' = session
                /\ last' = last
        /\ UNCHANGED <<env, vault, serial, now, issued>>

\* POST /api/users: the body is valid and its email is new
UsersPost(r, sid, sess, body) ==
    EnterUsers(r, sid, sess, "users_post", FALSE, 0, body.role, "post_insert")

\* PUT /api/users/:id: if (targetId === req.session.userId) 400
UsersPut(r, sid, sess, body) ==
    EnterUsers(r, sid, sess, "users_put", body.id = sess[sid].userId,
               body.id, body.role, "put_check")

\* DELETE /api/users/:id: if (targetId === req.session.userId) 400
UsersDelete(r, sid, sess, body) ==
    EnterUsers(r, sid, sess, "users_delete", body.id = sess[sid].userId,
               body.id, "", "delete_check")

\* the route of a request in flight
UsersKind(pc) ==
    CASE pc \in {"put_check", "put_write"} -> "users_put"
      [] pc \in {"delete_check", "delete_write"} -> "users_delete"
      [] pc = "post_insert" -> "users_post"
      [] OTHER -> "signup"

\* a handler in flight sends its response
UsersRespond(r, status) ==
    /\ session' = SaveSession(session, reqs[r].sid, reqs[r].session)
    /\ Respond(UsersKind(reqs[r].pc), reqs[r].sid, NoQuery, Null, status, 0)
    /\ Release(r)

\* SELECT id, account_id FROM users WHERE id = $1 AND account_id = $2, and
\* for DELETE the test that the row is not the account owner
UsersCheck(r, dbok) ==
    /\ reqs[r].pc \in {"put_check", "delete_check"}
    /\ LET target == reqs[r].target
           found == /\ target \in DOMAIN users
                    /\ users[target].account_id = reqs[r].session.accountId
       IN  /\ users' = users
           /\ IF ~dbok THEN UsersRespond(r, "500")
              ELSE IF ~found THEN UsersRespond(r, "404")
              ELSE IF reqs[r].pc = "delete_check" /\ target = users[target].account_id
              THEN UsersRespond(r, "400_owner")
              ELSE /\ reqs' = [reqs EXCEPT ![r].pc =
                                  IF reqs[r].pc = "put_check" THEN "put_write"
                                  ELSE "delete_write"]
                   /\ UNCHANGED <<session, last>>
    /\ UNCHANGED <<env, vault, serial, now, issued, resolved>>

\* DELETE FROM session WHERE sess->>'userId' = $1
ClearSessions(sess, target) ==
    [s \in Sids |-> IF sess[s].userId = target THEN NoSession ELSE sess[s]]

\* INSERT INTO users (...) VALUES (..., role, req.session.accountId)
InsertedUser(own, role) == NewUser(role, own.accountId, <<6>>)

\* the statement that changes the table: the UPDATE of the role; the DELETE of
\* the row, after the best-effort deletion of the target's sessions (cleanup
\* tells whether that one succeeded); the INSERT of the new row
UsersWrite(r, dbok, cleanup) ==
    /\ reqs[r].pc \in {"put_write", "delete_write", "post_insert"}
    /\ reqs[r].pc = "post_insert" => serial < MaxUsers
    /\ LET target == reqs[r].target
           own == reqs[r].session
           stored == SaveSession(session, reqs[r].sid, own)
       IN  /\ users' =
                IF ~dbok THEN users
                ELSE CASE reqs[r].pc = "put_write" ->
                            Put(users, target,
                                [users[target] EXCEPT !.role = reqs[r].newRole])
                       [] reqs[r].pc = "delete_write" ->
                            [u \in DOMAIN users \ {target} |-> users[u]]
                       [] reqs[r].pc = "post_insert" ->
                            users @@ (serial + 1 :> InsertedUser(own, reqs[r].newRole))
           /\ serial' = IF reqs[r].pc = "post_insert" /\ dbok THEN serial + 1
                        ELSE serial
           /\ session' = IF reqs[r].pc = "delete_write" /\ cleanup
                         THEN ClearSessions(stored, target)
                         ELSE stored
           /\ Respond(UsersKind(reqs[r].pc), reqs[r].sid, NoQuery, Null,
                      IF dbok THEN "success" ELSE "500", 0)
    /\ Release(r)
    /\ UNCHANGED <<env, vault, now, issued, resolved>>

\* POST /api/auth/signup, a public route: INSERT INTO users (..., role)
\* VALUES (..., 'admin'); the row has no account_id yet
SignupInsert(r, sid, dbok) ==
    /\ reqs[r].pc = "idle"
    /\ \A r2 \in Slots : r2 < r => reqs[r2].pc # "idle"
    /\ serial < MaxUsers
    /\ IF dbok
       THEN /\ users' = users @@ (serial + 1 :> NewUser("admin", 0, <<5>>))
            /\ serial' = serial + 1
            /\ reqs' = [reqs EXCEPT ![r] =
                           [IdleReq EXCEPT !.pc = "signup", !.sid = sid,
                                           !.target = serial + 1,
                                           !.session = session[sid]]]
            /\ last' = last
       ELSE /\ users' = users
            /\ Respond("signup", sid, NoQuery, Null, "500", 0)
            /\ UNCHANGED <<serial, reqs>>
    /\ UNCHANGED <<session, env, vault, now, issued, resolved>>

\* UPDATE users SET account_id = $1 WHERE id = $1
SignupAccount(own, id) == id

\* the second statement of signup, and the session of the new owner
SignupOwn(r, dbok) ==
    /\ reqs[r].pc = "signup"
    /\ LET id == reqs[r].target
           own == reqs[r].session
       IN  /\ users' = IF dbok
                       THEN Put(users, id,
                                [users[id] EXCEPT !.account_id = SignupAccount(own, id)])
                       ELSE users
           /\ session' = IF dbok
                         THEN SaveSession(session, reqs[r].sid,
                                          [own EXCEPT !.userId = id, !.role = "admin",
                                                      !.accountId = id])
                         ELSE SaveSession(session, reqs[r].sid, own)
           /\ Respond("signup", reqs[r].sid, NoQuery, Null,
                      IF dbok THEN "success" ELSE "500", 0)
    /\ Release(r)
    /\ UNCHANGED <<env, vault, serial, now, issued, resolved>>

----------------------------------------------------------------------------
(* middleware/auth.js: requireAuth, loadUserConfig, refreshEbayOAuthToken *)

\* SELECT ... FROM users u JOIN users owner ON owner.id = u.account_id WHERE u.id = $1
HasRow(uid) == uid \in DOMAIN users /\ users[uid].account_id \in DOMAIN users

\* mutant: the buffer window is not subtracted
isExpired_NoBuffer(expiry, t) == expiry = Null \/ t > expiry[1]

\* mutant: the boundary counts as expired
isExpired_Inclusive(expiry, t) == expiry = Null \/ t >= expiry[1] - EXPIRY_BUFFER

\* mutant: the comparison is inverted
isExpired_Inverted(expiry, t) == expiry = Null \/ t < expiry[1] - EXPIRY_BUFFER

\* !expiry || Date.now() > (expiry.getTime() - EXPIRY_BUFFER_MS)
isExpired(expiry, t) == expiry = Null \/ t > expiry[1] - EXPIRY_BUFFER

\* mutant: an expired token is refreshed whether or not a refresh token is stored
WantsRefresh_WithoutRefreshToken(owner, t) ==
    /\ Truthy(owner.ebay_oauth_access_token)
    /\ isExpired(owner.ebay_oauth_token_expiry, t)
    /\ env.EBAY_APP_CLIENT_ID /\ env.EBAY_APP_CLIENT_SECRET

\* the middleware calls refreshEbayOAuthToken, and the call reaches the fetch
WantsRefresh(owner, t) ==
    /\ Truthy(owner.ebay_oauth_access_token)
    /\ isExpired(owner.ebay_oauth_token_expiry, t)
    /\ Truthy(owner.ebay_oauth_refresh_token)
    /\ env.EBAY_APP_CLIENT_ID /\ env.EBAY_APP_CLIENT_SECRET
    /\ Truthy(decrypt(owner.ebay_oauth_refresh_token))

\* mutant: the manual keys are no longer read
UserConfig_NoManualKeys(owner, oauthToken, connected) ==
    [ ebayToken |-> EmptyStr, ebayClientId |-> EmptyStr, ebayClientSecret |-> EmptyStr,
      ebayOAuthToken |-> oauthToken,
      ebayOAuthConnected |-> connected,
      ebayOAuthUsername |-> OrElse(owner.ebay_oauth_username, Null) ]

\* mutant: client id and client secret change places
UserConfig_Swapped(owner, oauthToken, connected) ==
    [ ebayToken |-> OrElse(decrypt(owner.ebay_token), EmptyStr),
      ebayClientId |-> OrElse(decrypt(owner.ebay_client_secret), EmptyStr),
      ebayClientSecret |-> OrElse(decrypt(owner.ebay_client_id), EmptyStr),
      ebayOAuthToken |-> oauthToken,
      ebayOAuthConnected |-> connected,
      ebayOAuthUsername |-> OrElse(owner.ebay_oauth_username, Null) ]

\* req.userConfig as lines 40-47 fill it from the owner's columns
UserConfig(owner, oauthToken, connected) ==
    [ ebayToken |-> OrElse(decrypt(owner.ebay_token), EmptyStr),
      ebayClientId |-> OrElse(decrypt(owner.ebay_client_id), EmptyStr),
      ebayClientSecret |-> OrElse(decrypt(owner.ebay_client_secret), EmptyStr),
      ebayOAuthToken |-> oauthToken,
      ebayOAuthConnected |-> connected,
      ebayOAuthUsername |-> OrElse(owner.ebay_oauth_username, Null) ]

\* lines 50-57: a stored token that is not expired is used
UsesStoredToken(owner, t) ==
    /\ Truthy(owner.ebay_oauth_access_token)
    /\ ~isExpired(owner.ebay_oauth_token_expiry, t)

\* the pass ends: the bundle is attached and next() is called, or the request fails
Pass(outcome, attached, userConfig, calls, wrote) ==
    [outcome |-> outcome, attached |-> attached, userConfig |-> userConfig,
     calls |-> calls, wrote |-> wrote]

\* mutant: the session survives
DestroySession_Kept(sess, sid) == sess

\* req.session.destroy()
DestroySession(sess, sid) == [sess EXCEPT ![sid] = NoSession]

\* mutant: the session keeps its cached role and accountId
SyncSession_Skipped(sess, sid, role, accountId) == sess

\* the session's role and accountId are overwritten with the row's
SyncSession(sess, sid, role, accountId) ==
    [sess EXCEPT ![sid].role = role, ![sid].accountId = accountId]

\* the refresh call succeeded: resp.ok and an access token in the JSON body
RefreshOk(resp) ==
    resp.fetch = "resolved" /\ resp.json /\ resp.ok /\ Truthy(resp.access_token)

\* mutant: the refresh token column is always assigned, as in the callback
RefreshUpdate_DropsRefreshToken(row, resp, t) ==
    [row EXCEPT
        !.ebay_oauth_access_token = encrypt(resp.access_token, randomIV),
        !.ebay_oauth_token_expiry = TokenExpiry(resp.expires_in, t),
        !.ebay_oauth_refresh_token =
            IF Truthy(resp.refresh_token) THEN encrypt(resp.refresh_token, randomIV)
            ELSE Null]

\* mutant: a row that another request has refreshed meanwhile is left alone
RefreshUpdate_SkipIfFresh(row, resp, t) ==
    IF ~isExpired(row.ebay_oauth_token_expiry, t) THEN row
    ELSE [row EXCEPT
            !.ebay_oauth_access_token = encrypt(resp.access_token, randomIV),
            !.ebay_oauth_token_expiry = TokenExpiry(resp.expires_in, t),
            !.ebay_oauth_refresh_token =
                IF Truthy(resp.refresh_token) THEN encrypt(resp.refresh_token, randomIV)
                ELSE @]

\* the two UPDATE statements of refreshEbayOAuthToken
RefreshUpdate(row, resp, t) ==
    [row EXCEPT
        !.ebay_oauth_access_token = encrypt(resp.access_token, randomIV),
        !.ebay_oauth_token_expiry = TokenExpiry(resp.expires_in, t),
        !.ebay_oauth_refresh_token =
            IF Truthy(resp.refresh_token) THEN encrypt(resp.refresh_token, randomIV)
            ELSE @]

\* the route handler of a request, entered from next()
Handle(r, sid, sess, rq, dbok) ==
    CASE rq.kind = "initiate"   -> Initiate(r, sid, sess)
      [] rq.kind = "callback"   -> Callback(r, sid, sess, rq.query)
      [] rq.kind = "disconnect" -> Disconnect(r, sid, sess, dbok)
      [] rq.kind = "config_put" -> ConfigPut(r, sid, sess, rq.body, dbok)
      [] rq.kind = "config_get" -> ConfigGet(r, sid, sess, dbok)
      [] rq.kind = "users_post" -> UsersPost(r, sid, sess, rq.body)
      [] rq.kind = "users_put" -> UsersPut(r, sid, sess, rq.body)
      [] rq.kind = "users_delete" -> UsersDelete(r, sid, sess, rq.body)

\* a request arrives: requireAuth, loadUserConfig up to the refresh call, and,
\* when no refresh is due, the route handler
Arrive(r, sid, rq, dbok) ==
    /\ reqs[r].pc = "idle"
    /\ \A r2 \in Slots : r2 < r => reqs[r2].pc # "idle"
    /\ LET uid == session[sid].userId
       IN  IF uid = 0
           THEN /\ users' = users
                /\ Respond("middleware", sid, NoQuery, Null, "401", 0)
                /\ UNCHANGED <<session, env, vault, serial, now, issued, reqs, resolved>>
           ELSE IF ~dbok
           THEN /\ users' = users
                /\ Respond("middleware", sid, NoQuery, Null, "500", 0)
                /\ resolved' = Pass("500", FALSE, EmptyConfig, 0, FALSE)
                /\ UNCHANGED <<session, env, vault, serial, now, issued, reqs>>
           ELSE IF ~HasRow(uid)
           THEN /\ users' = users
                /\ session' = DestroySession(session, sid)
                /\ Respond("middleware", sid, NoQuery, Null, "401_user_not_found", 0)
                /\ resolved' = Pass("401_user_not_found", FALSE, EmptyConfig, 0, FALSE)
                /\ UNCHANGED <<env, vault, serial, now, issued, reqs>>
           ELSE LET row == users[uid]
                    owner == users[row.account_id]
                IN  IF WantsRefresh(owner, now)
                    THEN /\ reqs' = [reqs EXCEPT ![r] =
                                [IdleReq EXCEPT !.pc = "refresh", !.sid = sid,
                                    !.role = row.role, !.accountId = row.account_id,
                                    !.refreshToken =
                                        decrypt(owner.ebay_oauth_refresh_token),
                                    !.userConfig = UserConfig(owner, Null, FALSE)]]
                         /\ UNCHANGED <<users, session, env, vault, serial, now, issued, last,
                                        resolved>>
                    ELSE /\ resolved' =
                               Pass("next", TRUE,
                                    IF UsesStoredToken(owner, now)
                                    THEN UserConfig(owner,
                                            decrypt(owner.ebay_oauth_access_token), TRUE)
                                    ELSE UserConfig(owner, Null, FALSE),
                                    0, FALSE)
                         /\ Handle(r, sid,
                                   SyncSession(session, sid, row.role, row.account_id),
                                   rq, TRUE)

\* mutant: a failed refresh is not caught and ends the request with 500
Refresh_Propagates(r, resp, dbok) ==
    /\ reqs[r].pc = "refresh"
    /\ IF RefreshOk(resp) /\ dbok
       THEN /\ users' = Put(users, reqs[r].accountId,
                            RefreshUpdate(users[reqs[r].accountId], resp, now))
            /\ reqs' = [reqs EXCEPT ![r] =
                           [@ EXCEPT !.pc = "next", !.refreshToken = Null,
                                     !.wrote = TRUE,
                                     !.userConfig =
                                        [@ EXCEPT !.ebayOAuthToken = resp.access_token,
                                                  !.ebayOAuthConnected = TRUE]]]
            /\ UNCHANGED <<last, resolved>>
       ELSE /\ users' = users
            /\ Respond("middleware", reqs[r].sid, NoQuery, Null, "500", 1)
            /\ resolved' = Pass("500", FALSE, EmptyConfig, 1, FALSE)
            /\ Release(r)
    /\ UNCHANGED <<session, env, vault, serial, now, issued>>

\* the token endpoint answers the refresh call; on success the UPDATE
Refresh(r, resp, dbok) ==
    /\ reqs[r].pc = "refresh"
    /\ users' = IF RefreshOk(resp) /\ dbok
                THEN Put(users, reqs[r].accountId,
                         RefreshUpdate(users[reqs[r].accountId], resp, now))
                ELSE users
    /\ reqs' = [reqs EXCEPT ![r] =
                   [@ EXCEPT !.pc = "next", !.refreshToken = Null,
                             !.wrote = RefreshOk(resp) /\ dbok,
                             !.userConfig =
                                 IF RefreshOk(resp) /\ dbok
                                 THEN [@ EXCEPT !.ebayOAuthToken = resp.access_token,
                                                !.ebayOAuthConnected = TRUE]
                                 ELSE @]]
    /\ UNCHANGED <<session, env, vault, serial, now, issued, last, resolved>>

\* loadUserConfig resumes after the refresh: session sync, next()
Continue(r, rq, dbok) ==
    /\ reqs[r].pc = "next"
    /\ resolved' = Pass("next", TRUE, reqs[r].userConfig, 1, reqs[r].wrote)
    /\ Handle(r, reqs[r].sid,
              SyncSession(session, reqs[r].sid, reqs[r].role, reqs[r].accountId),
              rq, dbok)

----------------------------------------------------------------------------
(* middleware/auth.js before the OAuth integration: loadUserConfig *)

\* req.userConfig of the earlier middleware: the three manual keys
LegacyUserConfig(owner) ==
    [ ebayToken |-> OrElse(decrypt(owner.ebay_token), EmptyStr),
      ebayClientId |-> OrElse(decrypt(owner.ebay_client_id), EmptyStr),
      ebayClientSecret |-> OrElse(decrypt(owner.ebay_client_secret), EmptyStr) ]

NoLegacyConfig == [ebayToken |-> Null, ebayClientId |-> Null, ebayClientSecret |-> Null]

\* what the earlier loadUserConfig does with a request of session sid: its
\* decision, the bundle it attaches, and req.session when it is done
LegacyLoadUserConfig(sid, dbok) ==
    LET uid == session[sid].userId
    IN  IF uid = 0
        THEN [decision |-> "401", userConfig |-> NoLegacyConfig, session |-> session[sid]]
        ELSE IF ~dbok
        THEN [decision |-> "500", userConfig |-> NoLegacyConfig, session |-> session[sid]]
        ELSE IF ~HasRow(uid)
        THEN [decision |-> "401_user_not_found", userConfig |-> NoLegacyConfig,
              session |-> NoSession]
        ELSE [decision |-> "next",
              userConfig |-> LegacyUserConfig(users[users[uid].account_id]),
              session |-> [session[sid] EXCEPT !.role = users[uid].role,
                                               !.accountId = users[uid].account_id]]

----------------------------------------------------------------------------
(* routes/users.js: the admin's changes of a sub-user, as they reach storage *)

\* the checks of PUT /:id and DELETE /:id that precede the statement: the actor
\* is an admin, the target is another user of the actor's account
ManagesUser(actor, target) ==
    /\ actor \in DOMAIN users /\ target \in DOMAIN users
    /\ users[actor].role = "admin"
    /\ target # actor
    /\ users[target].account_id = users[actor].account_id

\* PUT /api/users/:id: UPDATE users SET role = $1 WHERE id = $2
UpdateRole(actor, target, role) ==
    /\ role \in Roles
    /\ ManagesUser(actor, target)
    /\ users[target].role # role
    /\ users' = [users EXCEPT ![target].role = role]
    /\ UNCHANGED <<session, env, vault, serial, now, issued, reqs, last, resolved>>

\* DELETE /api/users/:id: the owner is never deleted; the target's sessions are
\* deleted best-effort (cleanup tells whether that statement succeeded), then
\* DELETE FROM users WHERE id = $1
DeleteUser(actor, target, cleanup) ==
    /\ ManagesUser(actor, target)
    /\ target # users[target].account_id
    /\ users' = [u \in DOMAIN users \ {target} |-> users[u]]
    /\ session' = IF cleanup
                  THEN [s \in Sids |->
                          IF session[s].userId = target THEN NoSession ELSE session[s]]
                  ELSE session
    /\ UNCHANGED <<env, vault, serial, now, issued, reqs, last, resolved>>

----------------------------------------------------------------------------
(* The requests of the model *)

Request(kind, query, body) == [kind |-> kind, query |-> query, body |-> body]

NoBody == <<>>

AuthCode == <<51>>

\* the queries a callback may carry; a state value not yet issued is a forged one
Queries ==
    [ error : {Null, AccessDenied, ConsentDeclined, OtherError},
      state : {Null} \cup {NewState(n) : n \in 1..MaxIssued},
      code : {Null, AuthCode} ]

\* bodies that carry eBay keys
TokenBody == [ebay_token |-> <<31>>]

KeyBodies ==
    { TokenBody,
      [ebay_token |-> EmptyStr, ebay_client_id |-> <<32>>, ebay_client_secret |-> <<33>>] }

\* one failed call, one success without refresh token and expires_in, one
\* success with both
SomeTokenResponses ==
    { t \in TokenResponses :
        \/ t.fetch = "resolved" /\ t.json /\ ~t.ok
        \/ t.access_token = <<11>> /\ t.refresh_token = Null /\ t.expires_in = Null
        \/ t.access_token = <<12>> /\ t.refresh_token = <<21>> /\ t.expires_in = <<300>> }

\* every handler, from the sub-user's session, two requests in flight; a
\* callback is the provider's redirect after consent: it carries the session's
\* pending state
Requests(sid) ==
    { Request("initiate", NoQuery, NoBody), Request("disconnect", NoQuery, NoBody),
      Request("callback",
              [error |-> Null, state |-> session[sid].ebayOAuthState, code |-> AuthCode],
              NoBody) }
    \cup {Request("config_put", NoQuery, TokenBody)}

\* a body that carries the three manual keys
KeyTriplet ==
    [ebay_token |-> <<31>>, ebay_client_id |-> <<32>>, ebay_client_secret |-> <<33>>]

\* the same requests, the configuration write carrying the three keys
ResolveRequests(sid) ==
    (Requests(sid) \ {Request("config_put", NoQuery, TokenBody)})
    \cup {Request("config_put", NoQuery, KeyTriplet)}

\* the answers of SomeTokenResponses, a network error, and a 2xx answer
\* without an access token
ResolveResponses ==
    SomeTokenResponses
    \cup { t \in TokenResponses :
             \/ t.fetch = "rejected"
             \/ t.fetch = "resolved" /\ t.json /\ t.ok /\ t.access_token = Null }

\* the OAuth flow of the owner's session, one request at a time, every query
\* and every answer of the token endpoint
FlowRequests(sid) ==
    {Request("initiate", NoQuery, NoBody)}
    \cup {Request("callback", q, NoBody) : q \in Queries}

\* the bodies of a configuration write: one key, a blank key alone, a blank key
\* next to another key, a profile field, a profile field next to a key, a
\* profile field next to a template
ConfigBodies ==
    { TokenBody,
      [ebay_token |-> EmptyStr],
      [ebay_token |-> EmptyStr, ebay_client_id |-> <<32>>],
      [first_name |-> <<7>>],
      [first_name |-> <<8>>, ebay_token |-> <<31>>],
      [first_name |-> <<8>>, example_template |-> <<9>>] }

\* the configuration page: reads and writes
ConfigRequests(sid) ==
    {Request("config_get", NoQuery, NoBody)}
    \cup {Request("config_put", NoQuery, body) : body \in ConfigBodies}

\* the steps of the system for given slots, sessions and inputs; requests(sid)
\* are the requests the browser of session sid may send
Step(slots, sids, flow, responses) ==
    LET requests(sid) == CASE flow = "flow" -> FlowRequests(sid)
                           [] flow = "config" -> ConfigRequests(sid)
                           [] flow = "resolve" -> ResolveRequests(sid)
                           [] OTHER -> Requests(sid)
    IN
    \/ \E u \in sids : Login(u)
    \/ Tick
    \/ \E r \in slots, sid \in sids, dbok \in BOOLEAN :
          \E rq \in requests(sid) : Arrive(r, sid, rq, dbok)
    \/ \E r \in slots, resp \in responses, dbok \in BOOLEAN : Refresh(r, resp, dbok)
    \/ \E r \in slots, dbok \in BOOLEAN :
          /\ reqs[r].pc = "next"
          /\ \E rq \in requests(reqs[r].sid) : Continue(r, rq, dbok)
    \/ \E r \in slots, resp \in responses, idresp \in IdentityResponses,
          dbok \in BOOLEAN : CallbackExchange(r, resp, IdentityLabel(idresp), dbok)

Configured ==
    [EBAY_APP_CLIENT_ID |-> TRUE, EBAY_APP_CLIENT_SECRET |-> TRUE, EBAY_RUNAME |-> TRUE]

Init == InitWith({"admin", "publisher"}, {Configured})

Next == Step(Slots, {SubUserId}, "all", SomeTokenResponses)

Spec == Init /\ [][Next]_vars

FlowInit == InitWith({"publisher"}, Envs)

FlowNext == Step({1}, {OwnerId}, "flow", TokenResponses)

FlowSpec == FlowInit /\ [][FlowNext]_vars

\* credential resolution: the sub-user's session, one request at a time, while
\* the owner changes the sub-user's role or deletes the sub-user
ResolveInit == InitWith({"admin"}, {Configured})

ResolveNext ==
    \/ Step({1}, {SubUserId}, "resolve", ResolveResponses)
    \/ \E role \in Roles : UpdateRole(OwnerId, SubUserId, role)
    \/ \E cleanup \in BOOLEAN : DeleteUser(OwnerId, SubUserId, cleanup)

ResolveSpec == ResolveInit /\ [][ResolveNext]_vars

\* the event loop resumes loadUserConfig once its refresh call has settled
ResumeStep ==
    \E r \in Slots, dbok \in BOOLEAN :
        /\ reqs[r].pc = "next"
        /\ \E rq \in ResolveRequests(reqs[r].sid) : Continue(r, rq, dbok)

\* credential resolution with the scheduling the server guarantees: a
\* continuation that can run does run.  The fetch calls carry no timeout and
\* no abort signal, so nothing makes the provider's answer arrive.
LiveSpec == ResolveInit /\ [][ResolveNext]_vars /\ WF_vars(ResumeStep)

\* the configuration page, used from the owner's session and from the
\* session of a publisher or operator, one request at a time
ConfigInit == InitWith({"publisher", "operator"}, {Configured})

ConfigNext ==
    \/ \E u \in Sids : Login(u)
    \/ \E sid \in Sids, dbok \in BOOLEAN :
          \E rq \in ConfigRequests(sid) : Arrive(1, sid, rq, dbok)

ConfigSpec == ConfigInit /\ [][ConfigNext]_vars

\* the roles a user-management request names
UsersRoles == {"admin", "publisher"}

\* the requests of the user-management page
UsersRequests ==
    {Request("users_put", NoQuery, [id |-> t, role |-> role]) :
        t \in 1..MaxUsers, role \in UsersRoles}
    \cup {Request("users_delete", NoQuery, [id |-> t]) : t \in 1..MaxUsers}
    \cup {Request("users_post", NoQuery, [role |-> role]) : role \in UsersRoles}

\* user management: the owner and a sub-user who is an admin too, each in a
\* session of their own, two requests in flight; a visitor signs up
UsersInit == InitWith({"admin"}, {Configured})

UsersNext ==
    \/ \E u \in Sids : Login(u)
    \/ \E r \in Slots, sid \in Sids : \E rq \in UsersRequests :
          Arrive(r, sid, rq, TRUE)
    \/ \E r \in Slots, dbok \in BOOLEAN : UsersCheck(r, dbok)
    \/ \E r \in Slots, dbok \in BOOLEAN, cleanup \in BOOLEAN :
          UsersWrite(r, dbok, cleanup)
    \/ \E r \in Slots, sid \in Sids, dbok \in BOOLEAN : SignupInsert(r, sid, dbok)
    \/ \E r \in Slots, dbok \in BOOLEAN : SignupOwn(r, dbok)

UsersSpec == UsersInit /\ [][UsersNext]_vars

----------------------------------------------------------------------------
(* crypto-utils.js called on its own: a secret is encrypted, the stored token
   is possibly altered in one place, and the token is decrypted *)

Plaintexts == {Null, EmptyStr} \cup {<<k>> : k \in 1..MaxPlain}

\* the text of two segments whose delimiter is gone
Join(a, b) == a * Modulus * Modulus + b

\* the tokens that differ from stored in one character: a character that
\* carries bytes of a segment, a character or bits of the tag or of the
\* ciphertext that carry none, or a delimiter
Alterations(stored) ==
    [kind : {"bytes"}, segment : 1..3, value : 0..(Modulus - 1)]
    \cup [kind : {"spare"}, segment : 2..3, value : {0}]
    \cup [kind : {"delimiter"}, segment : 1..2, value : {0}]

Altered(stored, c) ==
    CASE c.kind = "bytes" -> [stored EXCEPT ![c.segment] = c.value]
      [] c.kind = "spare" -> [stored EXCEPT ![c.segment] = @ + Modulus]
      [] c.kind = "delimiter" ->
            IF c.segment = 1 THEN <<Join(stored[1], stored[2]), stored[3]>>
            ELSE <<stored[1], Join(stored[2], stored[3])>>

VaultEncrypt(plaintext, iv) ==
    /\ vault.op = "none"
    /\ vault' = [NoCall EXCEPT !.op = "encrypt", !.plaintext = plaintext,
                               !.stored = encrypt(plaintext, iv)]
    /\ UNCHANGED <<users, session, env, serial, now, issued, reqs, last, resolved>>

VaultAlter(c) ==
    /\ vault.op = "encrypt"
    /\ vault.stored # Null
    /\ Altered(vault.stored, c) # vault.stored
    /\ vault' = [vault EXCEPT !.op = "alter", !.change = c.kind,
                              !.stored = Altered(vault.stored, c)]
    /\ UNCHANGED <<users, session, env, serial, now, issued, reqs, last, resolved>>

VaultDecrypt ==
    /\ vault.op \in {"encrypt", "alter"}
    /\ vault' = [vault EXCEPT !.op = "decrypt", !.output = decrypt(vault.stored)]
    /\ UNCHANGED <<users, session, env, serial, now, issued, reqs, last, resolved>>

VaultInit == InitWith({"publisher"}, {Configured})

VaultNext ==
    \/ \E plaintext \in Plaintexts, iv \in 0..MaxIV : VaultEncrypt(plaintext, iv)
    \/ \E c \in Alterations(vault.stored) : VaultAlter(c)
    \/ VaultDecrypt

VaultSpec == VaultInit /\ [][VaultNext]_vars

----------------------------------------------------------------------------
(* Credential resolution over a row that is incomplete or damaged: the
   provider issues no refresh token, and the stored access token may be
   changed in storage, outside the program *)

Owner == users[OwnerId]

\* the answers of a token endpoint that issues no refresh token
DegradedResponses ==
    { t \in TokenResponses :
        /\ t.refresh_token = Null
        /\ t.access_token \in {Null, <<11>>}
        /\ t.fetch = "resolved" /\ t.json }

\* the changes of one character the stored token may suffer: bits that carry
\* no byte, or a delimiter
Damages == {c \in Alterations(Null) : c.kind \in {"spare", "delimiter"}}

\* a token as encrypt wrote it
Intact(stored) ==
    /\ Len(stored) = 3
    /\ \A i \in 1..3 : stored[i] < Modulus

\* the stored access token of the owner's row is changed in one character
Tamper(c) ==
    /\ Owner.ebay_oauth_access_token # Null
    /\ Intact(Owner.ebay_oauth_access_token)
    /\ users' = [users EXCEPT ![OwnerId].ebay_oauth_access_token = Altered(@, c)]
    /\ UNCHANGED <<session, env, vault, serial, now, issued, reqs, last, resolved>>

DegradedInit == InitWith({"admin"}, {Configured})

DegradedNext ==
    \/ Login(SubUserId)
    \/ Tick
    \/ \E dbok \in BOOLEAN : \E rq \in ResolveRequests(SubUserId) :
          Arrive(1, SubUserId, rq, dbok)
    \/ \E resp \in DegradedResponses, idresp \in IdentityResponses,
          dbok \in BOOLEAN : CallbackExchange(1, resp, IdentityLabel(idresp), dbok)
    \/ \E c \in Damages : Tamper(c)

DegradedSpec == DegradedInit /\ [][DegradedNext]_vars

----------------------------------------------------------------------------
(* Claims *)

Denied(query) == query.error = AccessDenied \/ query.error = ConsentDeclined

OAuthColumns(row) ==
    <<row.ebay_oauth_access_token, row.ebay_oauth_refresh_token,
      row.ebay_oauth_token_expiry, row.ebay_oauth_username>>

\* a step in which a callback is answered
CallbackResponds ==
    /\ last'.kind = "callback"
    /\ \/ last' # last
       \/ \E r \in Slots : reqs[r].pc = "exchange" /\ reqs'[r].pc = "idle"

\* a step in which a callback is suspended at the token exchange
CallbackSuspends(sid) ==
    \E r \in Slots : /\ reqs[r].pc # "exchange"
                     /\ reqs'[r].pc = "exchange"
                     /\ reqs'[r].sid = sid

StateRejected(response) ==
    \/ ~Truthy(response.query.state)
    \/ ~Truthy(response.savedState)
    \/ response.query.state # response.savedState

\* C2: a callback without a denial whose state is missing, differs from the
\* stored state or meets no stored state ends in invalid_state, without a call
\* of the token endpoint and without a change of the users table
C2_InvalidState ==
    (last.kind = "callback" /\ ~Denied(last.query) /\ StateRejected(last))
    => (last.status = "invalid_state" /\ last.tokenCalls = 0 /\ ~last.wrote)

\* a callback with a code and a state that is present but is not the stored one
C2_Witness ==
    /\ last.kind = "callback"
    /\ last.status = "invalid_state"
    /\ last.query.error = Null
    /\ last.query.code = AuthCode
    /\ Truthy(last.query.state) /\ Truthy(last.savedState)
    /\ last.query.state # last.savedState

\* C3: of two callbacks answered one after the other on one session with the
\* same state and code, the second, carrying no denial, ends in invalid_state
C3_SecondCallbackRejected ==
    [][(/\ last.kind = "callback"
        /\ CallbackResponds
        /\ last'.sid = last.sid
        /\ last'.query.state = last.query.state
        /\ last'.query.code = last.query.code
        /\ ~Denied(last'.query))
       => last'.status = "invalid_state"]_vars

\* the only state issued so far comes back after a callback has consumed it
C3_Witness ==
    /\ issued = 1
    /\ last.kind = "callback"
    /\ last.status = "invalid_state"
    /\ last.query = [error |-> Null, state |-> NewState(1), code |-> AuthCode]
    /\ last.savedState = Null

\* C4 as claimed: a successful callback whose token response carries no
\* refresh token leaves the stored refresh token of the owner's row in place
C4_RefreshTokenKept ==
    [][\A r \in Slots, resp \in TokenResponses, username \in {Null} \cup Usernames :
          (/\ CallbackExchange(r, resp, username, TRUE)
           /\ ExchangeStatus(resp, TRUE) = "success"
           /\ ~Truthy(resp.refresh_token))
          => users'[OwnerId].ebay_oauth_refresh_token
                = users[OwnerId].ebay_oauth_refresh_token]_vars

\* C5: in every row a stored access token comes with a stored expiry
C5_AccessTokenHasExpiry ==
    \A u \in DOMAIN users :
        users[u].ebay_oauth_access_token # Null
        => users[u].ebay_oauth_token_expiry # Null

\* a refresh has persisted a token after the refresh token was cleared under it
C5_Witness ==
    /\ Owner.ebay_oauth_access_token # Null
    /\ Owner.ebay_oauth_token_expiry # Null
    /\ Owner.ebay_oauth_refresh_token = Null
    /\ \E r \in Slots : reqs[r].pc = "next"
    /\ last.kind = "disconnect" /\ last.status = "success"

CredentialColumns(row) ==
    <<row.ebay_token, row.ebay_client_id, row.ebay_client_secret,
      row.ebay_oauth_access_token, row.ebay_oauth_refresh_token,
      row.ebay_oauth_token_expiry, row.ebay_oauth_username>>

\* C6: a row whose id differs from its account_id holds no credential: its
\* three key columns and its four OAuth columns are null
C6_SubUsersHoldNoCredentials ==
    \A u \in DOMAIN users :
        u # users[u].account_id
        => CredentialColumns(users[u]) = <<Null, Null, Null, Null, Null, Null, Null>>

\* the sub-user's session has written keys, and OAuth tokens are stored
C6_Witness ==
    /\ last.sid = SubUserId
    /\ last.kind = "config_put" /\ last.status = "success" /\ last.wrote
    /\ Owner.ebay_token # Null
    /\ Owner.ebay_oauth_access_token # Null
    /\ Owner.ebay_oauth_refresh_token # Null

\* a step in which a disconnect is answered with success
DisconnectSucceeds ==
    /\ \E r \in Slots, sid \in Sids : Disconnect(r, sid, session', TRUE)
    /\ last'.status = "success"

\* C7: the step in which a disconnect succeeds leaves the four OAuth columns
\* of the owner's row null; no state shows a refresh token without an access
\* token; a disconnect calls no provider endpoint and is never suspended
C7_DisconnectClearsAll ==
    /\ [][DisconnectSucceeds
            => /\ OAuthColumns(users'[OwnerId]) = <<Null, Null, Null, Null>>
               /\ \A r \in Slots : reqs'[r] = reqs[r] \/ reqs'[r].pc = "idle"]_vars
    /\ [](\A u \in DOMAIN users :
            users[u].ebay_oauth_refresh_token # Null
            => users[u].ebay_oauth_access_token # Null)
    /\ [](last.kind = "disconnect" => last.tokenCalls = 0)

\* a disconnect has cleared stored tokens
C7_Witness ==
    /\ last.kind = "disconnect" /\ last.status = "success" /\ last.wrote
    /\ OAuthColumns(Owner) = <<Null, Null, Null, Null>>

\* C8 as claimed: a token response that is not 2xx, whatever its body, or that
\* lacks an access token ends the callback in token_exchange, the table unchanged
C8_FailedExchange ==
    [][\A r \in Slots, resp \in TokenResponses, username \in {Null} \cup Usernames,
          dbok \in BOOLEAN :
          (/\ CallbackExchange(r, resp, username, dbok)
           /\ resp.fetch = "resolved"
           /\ (~resp.ok \/ ~Truthy(resp.access_token)))
          => (last'.status = "token_exchange" /\ users' = users)]_vars

ServerConfigured ==
    env.EBAY_APP_CLIENT_ID /\ env.EBAY_APP_CLIENT_SECRET /\ env.EBAY_RUNAME

\* C9 as claimed: denial, then state, then code, then the token exchange
C9_BranchOrderAsClaimed ==
    last.kind = "callback"
    => IF Denied(last.query) THEN last.status = "declined" /\ last.tokenCalls = 0
       ELSE IF StateRejected(last)
            THEN last.status = "invalid_state" /\ last.tokenCalls = 0
       ELSE IF ~Truthy(last.query.code)
            THEN last.status = "declined" /\ last.tokenCalls = 0
       ELSE last.tokenCalls = 1

\* C9, amended: denial gives declined; else a rejected state gives
\* invalid_state; else a missing code gives declined; else a missing server
\* setting gives server_error; else the token endpoint is called. None of the
\* first four calls the token endpoint
C9_BranchOrder ==
    last.kind = "callback"
    => IF Denied(last.query) THEN last.status = "declined" /\ last.tokenCalls = 0
       ELSE IF StateRejected(last)
            THEN last.status = "invalid_state" /\ last.tokenCalls = 0
       ELSE IF ~Truthy(last.query.code)
            THEN last.status = "declined" /\ last.tokenCalls = 0
       ELSE IF ~ServerConfigured
            THEN last.status = "server_error" /\ last.tokenCalls = 0
       ELSE last.tokenCalls = 1

\* a denial that carried the stored state and a code was answered declined
C9_Witness ==
    /\ last.kind = "callback"
    /\ Denied(last.query)
    /\ Truthy(last.savedState) /\ last.query.state = last.savedState
    /\ last.query.code = AuthCode
    /\ last.status = "declined"

\* C10: a session's pending state is the state issued last, and a callback
\* that passes the state check carries the state issued last
C10_OnlyLatestStatePasses ==
    /\ \A sid \in Sids : session[sid].ebayOAuthState \in {Null, NewState(issued)}
    /\ (last.kind = "callback" /\ ~Denied(last.query)
            /\ last.status # "invalid_state")
       => last.query.state = NewState(issued)

\* after two initiates a callback with the first state was rejected
C10_Witness ==
    /\ issued = 2
    /\ last.kind = "callback"
    /\ last.status = "invalid_state"
    /\ last.query = [error |-> Null, state |-> NewState(1), code |-> AuthCode]
    /\ last.savedState = NewState(2)

\* C11: an initiate of an admin while the client id or the redirect identifier
\* is missing is answered 500, issues no state and leaves the session's
\* pending state slot as it was
C11_InitiateNotConfigured ==
    [][(/\ ~(env.EBAY_APP_CLIENT_ID /\ env.EBAY_RUNAME)
        /\ last'.kind = "initiate"
        /\ requireRole(session'[last'.sid].role, {"admin"})
        /\ \E r \in Slots : Initiate(r, last'.sid, session'))
       => /\ last'.status = "500_not_configured"
          /\ session'[last'.sid].ebayOAuthState = session[last'.sid].ebayOAuthState
          /\ issued' = issued]_vars

\* an initiate was answered 500 with the redirect identifier missing
C11_Witness ==
    /\ last.kind = "initiate"
    /\ last.status = "500_not_configured"
    /\ env.EBAY_APP_CLIENT_ID /\ ~env.EBAY_RUNAME
    /\ issued = 0

\* C12: an initiate or a disconnect from a session whose role is not admin is
\* answered 403 and changes neither the session's pending state slot nor the
\* users table
C12_AdminOnly ==
    [][(/\ last'.kind \in {"initiate", "disconnect"}
        /\ session'[last'.sid].role # "admin"
        /\ \E r \in Slots, dbok \in BOOLEAN :
              \/ Initiate(r, last'.sid, session')
              \/ Disconnect(r, last'.sid, session', dbok))
       => /\ last'.status = "403"
          /\ session'[last'.sid].ebayOAuthState = session[last'.sid].ebayOAuthState
          /\ issued' = issued
          /\ users' = users]_vars

\* a disconnect of an operator was refused while tokens are stored
C12_Witness ==
    /\ last.kind = "disconnect"
    /\ last.status = "403"
    /\ session[last.sid].role = "operator"
    /\ Owner.ebay_oauth_access_token # Null

\* the session's user has a row, and so has the owner of the user's account
Resolvable(sid) == session[sid].userId # 0 /\ HasRow(session[sid].userId)

\* the owner's row the pass of a request of session sid reads
OwnerOf(sid) == users[users[session[sid].userId].account_id]

\* a step in which a request of session sid arrives and the read succeeds (the
\* conjuncts before the last follow from Arrive: the clock stands still, and
\* the request either suspends in its slot or is answered, and not with the
\* 500 of a failed read)
ArrivesAt(sid) ==
    /\ now' = now
    /\ \E r \in Slots :
          /\ reqs[r].pc = "idle"
          /\ \/ reqs'[r] # reqs[r] /\ last' = last
             \/ /\ reqs' = reqs /\ last'.sid = sid
                /\ ~(last'.kind = "middleware" /\ last'.status = "500")
          /\ \E rq \in ResolveRequests(sid) : Arrive(r, sid, rq, TRUE)

\* the stored access token expires later than the buffer window from now
OutsideBuffer(owner) ==
    /\ owner.ebay_oauth_access_token # Null
    /\ owner.ebay_oauth_token_expiry # Null
    /\ now < owner.ebay_oauth_token_expiry[1] - EXPIRY_BUFFER

\* C13: a pass that finds the stored access token outside the buffer window
\* calls next with the stored token, decrypted, in the bundle and
\* ebayOAuthConnected true; it calls no token endpoint and writes nothing
C13_StoredTokenUsed ==
    [][\A sid \in Sids :
          (Resolvable(sid) /\ OutsideBuffer(OwnerOf(sid)) /\ ArrivesAt(sid))
          => /\ resolved'.outcome = "next" /\ resolved'.attached
             /\ resolved'.userConfig.ebayOAuthToken \in AccessTokens
             /\ encrypt(resolved'.userConfig.ebayOAuthToken, randomIV)
                   = OwnerOf(sid).ebay_oauth_access_token
             /\ resolved'.userConfig.ebayOAuthConnected
             /\ resolved'.calls = 0 /\ ~resolved'.wrote
             /\ \A r \in Slots : reqs'[r].pc # "refresh"]_vars

\* a pass has served the stored token while a refresh token is stored
C13_Witness ==
    /\ resolved.outcome = "next"
    /\ resolved.calls = 0
    /\ resolved.userConfig.ebayOAuthConnected
    /\ encrypt(resolved.userConfig.ebayOAuthToken, randomIV)
          = Owner.ebay_oauth_access_token
    /\ Owner.ebay_oauth_refresh_token # Null
    /\ OutsideBuffer(Owner)

\* now is the instant the buffer window of the stored access token begins
AtBoundary(owner) ==
    /\ owner.ebay_oauth_access_token # Null
    /\ owner.ebay_oauth_token_expiry # Null
    /\ now = owner.ebay_oauth_token_expiry[1] - EXPIRY_BUFFER

\* now is inside the buffer window of the stored access token, or past its expiry
InsideBuffer(owner) ==
    /\ owner.ebay_oauth_access_token # Null
    /\ owner.ebay_oauth_token_expiry # Null
    /\ now > owner.ebay_oauth_token_expiry[1] - EXPIRY_BUFFER

\* a request is suspended at the fetch of the refresh call
RefreshCalled == \E r \in Slots : reqs[r].pc # "refresh" /\ reqs'[r].pc = "refresh"

\* C14 as claimed: a pass that finds the access token exactly at the buffer
\* boundary, and a refresh token, makes the refresh call
C14_RefreshAtBoundary ==
    [][\A sid \in Sids :
          (/\ Resolvable(sid)
           /\ AtBoundary(OwnerOf(sid))
           /\ OwnerOf(sid).ebay_oauth_refresh_token # Null
           /\ ArrivesAt(sid))
          => RefreshCalled]_vars

\* C14, amended: exactly at the boundary the token counts as not expired: the
\* pass serves the stored token, makes no refresh call and writes nothing; a
\* pass that finds the token inside the window, and a refresh token, makes the
\* refresh call and serves nothing before its answer
C14_Boundary ==
    [][\A sid \in Sids :
          /\ (/\ Resolvable(sid)
              /\ AtBoundary(OwnerOf(sid))
              /\ ArrivesAt(sid))
             => /\ ~RefreshCalled
                /\ resolved'.outcome = "next"
                /\ encrypt(resolved'.userConfig.ebayOAuthToken, randomIV)
                      = OwnerOf(sid).ebay_oauth_access_token
                /\ resolved'.userConfig.ebayOAuthConnected
                /\ resolved'.calls = 0 /\ ~resolved'.wrote
          /\ (/\ Resolvable(sid)
              /\ InsideBuffer(OwnerOf(sid))
              /\ OwnerOf(sid).ebay_oauth_refresh_token # Null
              /\ ArrivesAt(sid))
             => RefreshCalled /\ resolved' = resolved /\ users' = users]_vars

\* a pass has served the stored token at the boundary, a refresh token stored
C14_Witness ==
    /\ resolved.outcome = "next"
    /\ resolved.calls = 0
    /\ resolved.userConfig.ebayOAuthConnected
    /\ encrypt(resolved.userConfig.ebayOAuthToken, randomIV)
          = Owner.ebay_oauth_access_token
    /\ Owner.ebay_oauth_refresh_token # Null
    /\ AtBoundary(Owner)

\* the provider answers 2xx with a JSON body that carries an access token
ProviderSucceeds(resp) ==
    resp.fetch = "resolved" /\ resp.ok /\ resp.json /\ resp.access_token \in AccessTokens

\* a step in which loadUserConfig resumes after the refresh call in slot r
Resumes(r) == reqs[r].pc = "next" /\ reqs'[r].pc # "next"

\* C15: when the refresh call succeeds, the owner's row holds the new access
\* token, encrypted, and the new expiry; its refresh token is the one of the
\* response if the response carries one, and else is unchanged; the pass then
\* ends after one call with the new token in the bundle and
\* ebayOAuthConnected true
C15_RefreshSuccess ==
    [][\A r \in Slots :
          /\ (reqs[r].pc = "refresh" /\ reqs'[r].pc = "next")
             => \A resp \in ResolveResponses :
                (ProviderSucceeds(resp) /\ Refresh(r, resp, TRUE))
                => LET old == users[reqs[r].accountId]
                       new == users'[reqs[r].accountId]
                   IN  /\ new.ebay_oauth_access_token
                             = encrypt(resp.access_token, randomIV)
                       /\ decrypt(new.ebay_oauth_access_token) = resp.access_token
                       /\ new.ebay_oauth_token_expiry =
                             IF resp.expires_in = Null
                             THEN <<now + DEFAULT_EXPIRES_IN>>
                             ELSE <<now + resp.expires_in[1]>>
                       /\ IF resp.refresh_token # Null
                          THEN decrypt(new.ebay_oauth_refresh_token) = resp.refresh_token
                          ELSE new.ebay_oauth_refresh_token
                                  = old.ebay_oauth_refresh_token
                       /\ reqs'[r].pc = "next"
                       /\ reqs'[r].wrote
                       /\ reqs'[r].userConfig.ebayOAuthToken = resp.access_token
          /\ (Resumes(r) /\ reqs[r].wrote)
             => /\ resolved'.outcome = "next" /\ resolved'.attached
                /\ resolved'.calls = 1
                /\ resolved'.userConfig.ebayOAuthToken
                      = reqs[r].userConfig.ebayOAuthToken
                /\ resolved'.userConfig.ebayOAuthToken \in AccessTokens
                /\ resolved'.userConfig.ebayOAuthConnected]_vars

\* a refresh whose response carried no refresh token has ended a pass: the
\* new token is stored and served, the old refresh token is still stored
C15_Witness ==
    /\ resolved.outcome = "next"
    /\ resolved.calls = 1 /\ resolved.wrote
    /\ resolved.userConfig.ebayOAuthConnected
    /\ resolved.userConfig.ebayOAuthToken = <<11>>
    /\ Owner.ebay_oauth_access_token = encrypt(<<11>>, randomIV)
    /\ decrypt(Owner.ebay_oauth_refresh_token) = <<21>>

\* the refresh call fails: network error, non-2xx, or no access token
ProviderFails(resp) ==
    resp.fetch = "rejected" \/ ~resp.ok \/ resp.access_token = Null

ManualTriplet(config) ==
    <<config.ebayToken, config.ebayClientId, config.ebayClientSecret>>

\* plain is what a bundle shows for a key column that holds stored
MatchesStored(plain, stored) ==
    IF stored = Null THEN plain = EmptyStr
    ELSE Truthy(plain) /\ encrypt(plain, randomIV) = stored

BundleOfRow(config, owner) ==
    /\ MatchesStored(config.ebayToken, owner.ebay_token)
    /\ MatchesStored(config.ebayClientId, owner.ebay_client_id)
    /\ MatchesStored(config.ebayClientSecret, owner.ebay_client_secret)

\* C16: the manual keys of the bundle are those of the owner's row the pass
\* read; a failed refresh call changes neither the table nor the bundle and
\* sends no response; the pass then calls next with the manual keys,
\* ebayOAuthToken null and ebayOAuthConnected false
C16_RefreshFailure ==
    [][/\ \A sid \in Sids :
            (Resolvable(sid) /\ RefreshCalled /\ ArrivesAt(sid))
            => \A r \in Slots :
                 reqs'[r].pc = "refresh"
                 => BundleOfRow(reqs'[r].userConfig, OwnerOf(sid))
       /\ \A r \in Slots :
            /\ (reqs[r].pc = "refresh" /\ reqs'[r] # reqs[r])
               => \A resp \in ResolveResponses, dbok \in BOOLEAN :
                    (ProviderFails(resp) /\ Refresh(r, resp, dbok))
                    => /\ users' = users
                       /\ last' = last
                       /\ reqs'[r].pc = "next"
                       /\ ~reqs'[r].wrote
                       /\ reqs'[r].userConfig = reqs[r].userConfig
            /\ (Resumes(r) /\ ~reqs[r].wrote)
               => /\ resolved'.outcome = "next" /\ resolved'.attached
                  /\ resolved'.calls = 1 /\ ~resolved'.wrote
                  /\ resolved'.userConfig.ebayOAuthToken = Null
                  /\ ~resolved'.userConfig.ebayOAuthConnected
                  /\ ManualTriplet(resolved'.userConfig)
                        = ManualTriplet(reqs[r].userConfig)]_vars

\* a pass has ended disconnected after its refresh call, with the three
\* manual keys in the bundle, the expired token still stored
C16_Witness ==
    /\ resolved.outcome = "next"
    /\ resolved.calls = 1 /\ ~resolved.wrote
    /\ ~resolved.userConfig.ebayOAuthConnected
    /\ ManualTriplet(resolved.userConfig) = <<(<<31>>), (<<32>>), (<<33>>)>>
    /\ InsideBuffer(Owner)
    /\ Owner.ebay_oauth_refresh_token # Null

\* C17: a pass that finds no OAuth column set calls next with
\* ebayOAuthConnected false, ebayOAuthToken null and the manual keys as they
\* were configured; it calls no token endpoint and writes nothing. Every field
\* of the bundle is determined by the row, so repeated passes give one bundle
C17_ManualKeysOnly ==
    [][\A sid \in Sids :
          (/\ Resolvable(sid)
           /\ OAuthColumns(OwnerOf(sid)) = <<Null, Null, Null, Null>>
           /\ ArrivesAt(sid))
          => /\ ~RefreshCalled
             /\ resolved'.outcome = "next" /\ resolved'.attached
             /\ resolved'.calls = 0 /\ ~resolved'.wrote
             /\ resolved'.userConfig.ebayOAuthToken = Null
             /\ ~resolved'.userConfig.ebayOAuthConnected
             /\ resolved'.userConfig.ebayOAuthUsername = Null
             /\ BundleOfRow(resolved'.userConfig, OwnerOf(sid))
             /\ OwnerOf(sid).ebay_token # Null
                => ManualTriplet(resolved'.userConfig)
                      = ManualTriplet([ebayToken |-> KeyTriplet.ebay_token,
                                       ebayClientId |-> KeyTriplet.ebay_client_id,
                                       ebayClientSecret |-> KeyTriplet.ebay_client_secret])]_vars

\* no OAuth flow was ever started; a pass has served the three manual keys
C17_Witness ==
    /\ issued = 0
    /\ OAuthColumns(Owner) = <<Null, Null, Null, Null>>
    /\ resolved.outcome = "next"
    /\ resolved.calls = 0
    /\ ~resolved.userConfig.ebayOAuthConnected
    /\ ManualTriplet(resolved.userConfig) = <<(<<31>>), (<<32>>), (<<33>>)>>
    /\ last.kind = "disconnect"

\* C18: a request of a session whose user has no row destroys the session and
\* is answered 401 'User not found'; no bundle is attached, no handler runs,
\* nothing is written
C18_DanglingSession ==
    [][\A sid \in Sids :
          (/\ session[sid].userId # 0
           /\ session[sid].userId \notin DOMAIN users
           /\ ArrivesAt(sid))
          => /\ session'[sid] = NoSession
             /\ last'.kind = "middleware"
             /\ last'.status = "401_user_not_found"
             /\ resolved'.outcome = "401_user_not_found"
             /\ ~resolved'.attached
             /\ resolved'.userConfig = EmptyConfig
             /\ reqs' = reqs
             /\ users' = users
             /\ issued' = issued]_vars

\* the deleted sub-user's session, which the deletion had left in the store,
\* has sent a request
C18_Witness ==
    /\ SubUserId \notin DOMAIN users
    /\ last.kind = "middleware"
    /\ last.status = "401_user_not_found"
    /\ last.sid = SubUserId
    /\ session[SubUserId] = NoSession
    /\ resolved.outcome = "401_user_not_found"

\* the row of the user of session sid
UserOf(sid) == users[session[sid].userId]

\* the step ends in one of the two handlers behind requireRole('admin')
RoleChecked(sid) ==
    /\ last'.kind \in {"initiate", "disconnect"}
    /\ last'.sid = sid
    /\ \E r \in Slots, dbok \in BOOLEAN :
          \/ Initiate(r, sid, session')
          \/ Disconnect(r, sid, session', dbok)

\* req.session of the request of this step once its handler has run: the
\* stored session if the request was answered, the request's object if it
\* awaits the token exchange
SessionAfter(sid) ==
    IF \E r \in Slots : reqs[r].pc # "exchange" /\ reqs'[r].pc = "exchange"
    THEN (CHOOSE own \in {reqs'[r].session : r \in
                             {q \in Slots : reqs[q].pc # "exchange"
                                            /\ reqs'[q].pc = "exchange"}} : TRUE)
    ELSE session'[sid]

\* C19: a pass that calls next leaves in the session the role and the account
\* id of the row it read, whatever the session held before: the row as stored
\* when the request arrives, also when the pass ends after a refresh call,
\* successful or not; the role check of that request decides on this role
C19_SessionSync ==
    [][/\ \A sid \in Sids :
            (Resolvable(sid) /\ ArrivesAt(sid))
            => IF RefreshCalled
               THEN \A r \in Slots :
                      reqs'[r].pc = "refresh"
                      => /\ reqs'[r].role = UserOf(sid).role
                         /\ reqs'[r].accountId = UserOf(sid).account_id
               ELSE /\ resolved'.outcome = "next"
                    /\ SessionAfter(sid).role = UserOf(sid).role
                    /\ SessionAfter(sid).accountId = UserOf(sid).account_id
                    /\ RoleChecked(sid)
                       => (last'.status = "403" <=> UserOf(sid).role # "admin")
       /\ \A r \in Slots :
            /\ (reqs[r].pc = "refresh" /\ reqs'[r] # reqs[r])
               => /\ reqs'[r].role = reqs[r].role
                  /\ reqs'[r].accountId = reqs[r].accountId
                  /\ reqs'[r].pc = "next"
            /\ Resumes(r)
               => /\ resolved'.outcome = "next"
                  /\ SessionAfter(reqs[r].sid).role = reqs[r].role
                  /\ SessionAfter(reqs[r].sid).accountId = reqs[r].accountId
                  /\ RoleChecked(reqs[r].sid)
                     => (last'.status = "403" <=> reqs[r].role # "admin")]_vars

\* the sub-user logged in as admin and was made a publisher; a disconnect that
\* went through a refresh call was refused
C19_Witness ==
    /\ SubUserId \in DOMAIN users
    /\ users[SubUserId].role = "publisher"
    /\ session[SubUserId].role = "publisher"
    /\ resolved.outcome = "next" /\ resolved.calls = 1
    /\ last.kind = "disconnect" /\ last.status = "403"
    /\ last.sid = SubUserId
    /\ Owner.ebay_oauth_access_token # Null

\* C20 as claimed: a pass in which a database statement fails, the read of the
\* user and owner or the write of a refreshed token, answers 500 and does not
\* call next
C20_DatabaseErrorIs500 ==
    [][/\ \A sid \in Sids :
            (/\ session[sid].userId # 0
             /\ \E r \in Slots : \E rq \in ResolveRequests(sid) :
                   Arrive(r, sid, rq, FALSE))
            => /\ last'.kind = "middleware" /\ last'.status = "500"
               /\ resolved'.outcome = "500" /\ ~resolved'.attached
       /\ \A r \in Slots :
            (reqs[r].pc = "refresh" /\ reqs'[r].pc # "refresh")
            => \A resp \in ResolveResponses :
                 (ProviderSucceeds(resp) /\ Refresh(r, resp, FALSE))
                 => /\ reqs'[r].pc = "idle"
                    /\ last'.kind = "middleware" /\ last'.status = "500"]_vars

\* C24: a non-empty secret that was encrypted and whose token was not touched
\* decrypts to itself; null and the empty string encrypt to null, never to a
\* token; null decrypts to null
C24_RoundTrip ==
    /\ (vault.op # "none" /\ ~Truthy(vault.plaintext)) => vault.stored = Null
    /\ (vault.op # "none" /\ Truthy(vault.plaintext) /\ vault.change = "none")
       => /\ vault.stored # Null
          /\ Len(vault.stored) = 3
    /\ (vault.op = "decrypt" /\ vault.change = "none")
       => IF Truthy(vault.plaintext) THEN vault.output = vault.plaintext
          ELSE vault.output = Null

\* a secret came back from its token, and an empty one left no token
C24_Witness ==
    /\ vault.op = "decrypt" /\ vault.change = "none"
    /\ vault.plaintext = <<MaxPlain>>
    /\ vault.stored # Null /\ vault.stored[1] = MaxIV
    /\ vault.output = <<MaxPlain>>

\* C25 as claimed: a token altered in one character decrypts to null
C25_AlteredGivesNull ==
    (vault.op = "decrypt" /\ vault.change # "none") => vault.output = Null

\* the manual-key columns of a row
StoredTriplet(row) == <<row.ebay_token, row.ebay_client_id, row.ebay_client_secret>>

\* a configuration write with this body arrives on session sid, passes the
\* middleware and runs to its response
ConfigWrite(sid, body) ==
    /\ session[sid].userId # 0
    /\ HasRow(session[sid].userId)
    /\ last'.kind = "config_put" /\ last'.sid = sid
    /\ Arrive(1, sid, Request("config_put", NoQuery, body), TRUE)

\* C21 as claimed: a configuration write of a publisher or operator whose body
\* has a manual-key field is answered 403, and the owner's stored manual keys
\* are unchanged
C21_KeyWriteRejected ==
    [][\A sid \in Sids :
          (session[sid].userId # 0 /\ last'.kind = "config_put")
          => \A body \in ConfigBodies :
               (/\ DOMAIN body \cap KeyColumns # {}
                /\ ConfigWrite(sid, body)
                /\ UserOf(sid).role \in {"publisher", "operator"})
               => /\ last'.status = "403_keys"
                  /\ StoredTriplet(users'[UserOf(sid).account_id])
                        = StoredTriplet(OwnerOf(sid))]_vars

\* C22 as claimed: after an admin's configuration write with a blank
\* manual-key field the column is null, and a read reports it unset with an
\* empty preview
C22_BlankClears ==
    [][\A sid \in Sids :
          (session[sid].userId # 0 /\ last'.kind = "config_put")
          => \A body \in ConfigBodies :
               (/\ ConfigWrite(sid, body)
                /\ UserOf(sid).role = "admin")
               => \A f \in DOMAIN body \cap KeyColumns :
                     body[f] = EmptyStr
                     => /\ last'.status = "success"
                        /\ users'[UserOf(sid).account_id][f] = Null
                        /\ mask(users'[UserOf(sid).account_id][f])
                              = <<FALSE, EmptyStr>>]_vars

\* rows that differ from owner in their stored credentials only
CredentialVariants(owner) ==
    LET stored == {Null, encrypt(<<31>>, randomIV), encrypt(<<12>>, randomIV)}
    IN  { [owner EXCEPT !.ebay_token = a, !.ebay_client_id = b,
                        !.ebay_client_secret = c,
                        !.ebay_oauth_access_token = d,
                        !.ebay_oauth_refresh_token = e] :
            a \in stored, b \in stored, c \in stored, d \in stored, e \in stored }

\* the stored credentials of a row, their plaintexts and their previews
Secrets(row) ==
    LET stored == { row.ebay_token, row.ebay_client_id, row.ebay_client_secret,
                    row.ebay_oauth_access_token, row.ebay_oauth_refresh_token }
                  \ {Null}
    IN  stored \cup {decrypt(c) : c \in stored} \cup {mask(c)[2] : c \in stored}

\* C23: the body of a configuration read of a publisher or operator has no
\* manual-key field and no field that holds a stored credential, its
\* plaintext or its preview; the body is the same for every owner row that
\* differs in its stored credentials only
C23_NonAdminReadHidesSecrets ==
    [][\A sid \in Sids :
          (/\ session[sid].userId # 0
           /\ HasRow(session[sid].userId)
           /\ last'.kind = "config_get" /\ last'.sid = sid
           /\ UserOf(sid).role \in {"publisher", "operator"}
           /\ Arrive(1, sid, Request("config_get", NoQuery, NoBody), TRUE))
          => /\ last'.status = "200"
             /\ last'.body.role = UserOf(sid).role
             /\ \A f \in KeyColumns : last'.body[f] = Null
             /\ \A f \in {"first_name", "example_template"} :
                   last'.body[f] \notin Secrets(OwnerOf(sid))
             /\ \A other \in CredentialVariants(OwnerOf(sid)) :
                   ConfigResponse(UserOf(sid), other, UserOf(sid).role)
                     = last'.body]_vars

\* the sub-user read the configuration while the owner's row held a manual key
C23_Witness ==
    /\ last.kind = "config_get" /\ last.sid = SubUserId /\ last.status = "200"
    /\ last.body.role \in {"publisher", "operator"}
    /\ last.body.ebay_token = Null
    /\ Owner.ebay_token # Null
    /\ mask(Owner.ebay_token)[1]

RacesWith(r) ==
    \E r2 \in Slots \ {r} :
        /\ reqs[r2].pc \in {"refresh", "next"}
        /\ reqs[r2].accountId = reqs[r].accountId

\* C27: while two requests for one owner are both in a refresh, no answer of
\* the token endpoint fails a request: a successful refresh writes its token
\* and expiry over whatever the row holds and puts its own token in its
\* bundle, a failed one changes nothing; each pass then calls next, connected
\* with the token of its own refresh or disconnected with the manual keys it
\* read
C27_ConcurrentRefresh ==
    [][\A r \in Slots :
          /\ (reqs[r].pc = "idle" /\ reqs'[r].pc = "refresh" /\ RacesWith(r)')
             => /\ BundleOfRow(reqs'[r].userConfig, users[reqs'[r].accountId])
                /\ reqs'[r].userConfig.ebayOAuthToken = Null
                /\ ~reqs'[r].userConfig.ebayOAuthConnected
          /\ (reqs[r].pc = "refresh" /\ reqs'[r].pc # "refresh" /\ RacesWith(r))
             => /\ reqs'[r].pc = "next"
                /\ last' = last
                /\ ManualTriplet(reqs'[r].userConfig) = ManualTriplet(reqs[r].userConfig)
                /\ \A resp \in SomeTokenResponses :
                      Refresh(r, resp, TRUE)
                      => IF ProviderSucceeds(resp)
                         THEN LET row == users'[reqs[r].accountId]
                              IN  /\ decrypt(row.ebay_oauth_access_token)
                                        = resp.access_token
                                  /\ row.ebay_oauth_token_expiry[1] =
                                        now + (IF resp.expires_in = Null
                                                THEN DEFAULT_EXPIRES_IN
                                                ELSE resp.expires_in[1])
                                  /\ reqs'[r].userConfig.ebayOAuthToken
                                        = resp.access_token
                                  /\ reqs'[r].userConfig.ebayOAuthConnected
                         ELSE /\ users' = users
                              /\ reqs'[r].userConfig = reqs[r].userConfig
          /\ Resumes(r)
             => /\ resolved'.outcome = "next" /\ resolved'.attached
                /\ resolved'.userConfig = reqs[r].userConfig
                /\ resolved'.userConfig.ebayOAuthConnected
                      <=> resolved'.userConfig.ebayOAuthToken \in AccessTokens]_vars

\* both requests refreshed; this one ended connected with the token of its own
\* refresh while the row holds the token the other one persisted later
C27_Witness ==
    /\ resolved.outcome = "next" /\ resolved.calls = 1 /\ resolved.wrote
    /\ resolved.userConfig.ebayOAuthConnected
    /\ resolved.userConfig.ebayOAuthToken = <<11>>
    /\ decrypt(Owner.ebay_oauth_access_token) = <<12>>
    /\ \E r \in Slots : reqs[r].pc = "next" /\ reqs[r].wrote
                          /\ reqs[r].userConfig.ebayOAuthToken = <<12>>

\* C28 as claimed: every request that has begun a credential resolution pass
\* or a callback is finished eventually, whether or not the provider answers
C28_EveryRequestFinishes ==
    \A r \in Slots : (reqs[r].pc # "idle") ~> (reqs[r].pc = "idle")

\* no OAuth column of the row is set
NoOAuth(row) == OAuthColumns(row) = <<Null, Null, Null, Null>>

\* C29: while the owner's row holds no OAuth column, a request is decided by
\* loadUserConfig as the middleware before the OAuth integration decides it:
\* the same answer 401 or 500, or next with the same three manual keys in the
\* bundle and the same role and account id in the session; no call of the
\* token endpoint and no write
C29_LegacyEquivalence ==
    [][\A sid \in Sids :
          (session[sid].userId # 0 /\ NoOAuth(Owner) /\ reqs[1].pc = "idle")
          => \A dbok \in BOOLEAN :
               (\E rq \in ResolveRequests(sid) : Arrive(1, sid, rq, dbok))
               => LET legacy == LegacyLoadUserConfig(sid, dbok)
                  IN  /\ ~RefreshCalled
                      /\ resolved'.outcome = legacy.decision
                      /\ resolved'.calls = 0 /\ ~resolved'.wrote
                      /\ IF legacy.decision = "next"
                         THEN /\ resolved'.attached
                              /\ ManualTriplet(resolved'.userConfig)
                                    = ManualTriplet(legacy.userConfig)
                              /\ SessionAfter(sid).role = legacy.session.role
                              /\ SessionAfter(sid).accountId = legacy.session.accountId
                              /\ SessionAfter(sid).userId = legacy.session.userId
                         ELSE /\ ~resolved'.attached
                              /\ last'.kind = "middleware"
                              /\ last'.status = legacy.decision
                              /\ session'[sid] = legacy.session
                              /\ users' = users]_vars

\* the sub-user was made an operator; without any OAuth column set, a pass
\* called next with the owner's manual keys and the session holds the new role
C29_Witness ==
    /\ NoOAuth(Owner)
    /\ SubUserId \in DOMAIN users
    /\ users[SubUserId].role = "operator"
    /\ session[SubUserId].role = "operator"
    /\ resolved.outcome = "next" /\ resolved.calls = 0
    /\ ManualTriplet(resolved.userConfig) = ManualTriplet(LegacyUserConfig(Owner))
    /\ Truthy(resolved.userConfig.ebayClientSecret)
    /\ last.kind = "config_put" /\ last.status = "403_keys"

ExpiryOf(resp) ==
    IF resp.expires_in = Null THEN <<now + 7200>> ELSE <<now + resp.expires_in[1]>>

Expired(owner) ==
    /\ Truthy(owner.ebay_oauth_access_token)
    /\ \/ owner.ebay_oauth_token_expiry = Null
       \/ now > owner.ebay_oauth_token_expiry[1] - EXPIRY_BUFFER

\* C32: a pass that finds the access token expired and no refresh token
\* stored makes no refresh call and writes nothing; it calls next with
\* ebayOAuthConnected false, ebayOAuthToken null and the manual keys of the
\* owner's row
C32_ExpiredWithoutRefreshToken ==
    [][\A sid \in Sids :
          (/\ Resolvable(sid)
           /\ Expired(OwnerOf(sid))
           /\ OwnerOf(sid).ebay_oauth_refresh_token = Null
           /\ ArrivesAt(sid))
          => /\ ~RefreshCalled
             /\ resolved'.outcome = "next" /\ resolved'.attached
             /\ resolved'.calls = 0 /\ ~resolved'.wrote
             /\ resolved'.userConfig.ebayOAuthToken = Null
             /\ ~resolved'.userConfig.ebayOAuthConnected
             /\ BundleOfRow(resolved'.userConfig, OwnerOf(sid))
             /\ last'.kind \in {"initiate", "config_put"}
                => OAuthColumns(users'[OwnerId]) = OAuthColumns(Owner)]_vars

\* the second initiate was sent after a callback had stored an access token
\* without a refresh token and after the token had expired; its pass served
\* the three manual keys and no token
C32_Witness ==
    /\ last.kind = "initiate" /\ issued = 2
    /\ reqs[1].pc = "idle"
    /\ Expired(Owner)
    /\ Owner.ebay_oauth_refresh_token = Null
    /\ resolved.outcome = "next" /\ resolved.calls = 0
    /\ resolved.userConfig.ebayOAuthToken = Null
    /\ ~resolved.userConfig.ebayOAuthConnected
    /\ ManualTriplet(resolved.userConfig) = <<(<<31>>), (<<32>>), (<<33>>)>>

\* the identity lookup fails: the fetch is rejected, or the answer is not 2xx
LookupFails(idresp) == idresp.fetch = "rejected" \/ ~idresp.ok

\* C33: when the token exchange has succeeded and the identity lookup fails,
\* the callback ends in success, the owner's row holds the tokens of the
\* response, encrypted, and the expiry, and its username column is null
C33_IdentityLookupNonFatal ==
    [][\A r \in Slots :
          (reqs[r].pc = "exchange" /\ reqs'[r].pc = "idle")
          => \A resp \in TokenResponses, idresp \in IdentityResponses :
               (/\ ExchangeStatus(resp, TRUE) = "success"
                /\ LookupFails(idresp)
                /\ CallbackExchange(r, resp, IdentityLabel(idresp), TRUE))
               => /\ last'.kind = "callback" /\ last'.status = "success"
                  /\ decrypt(users'[OwnerId].ebay_oauth_access_token)
                        = resp.access_token
                  /\ decrypt(users'[OwnerId].ebay_oauth_refresh_token)
                        = resp.refresh_token
                  /\ users'[OwnerId].ebay_oauth_token_expiry = ExpiryOf(resp)
                  /\ users'[OwnerId].ebay_oauth_username = Null]_vars

\* a callback has ended in success and has stored both tokens and no username
C33_Witness ==
    /\ last.kind = "callback" /\ last.status = "success" /\ last.wrote
    /\ last.tokenCalls = 1
    /\ Owner.ebay_oauth_username = Null
    /\ decrypt(Owner.ebay_oauth_access_token) = <<12>>
    /\ decrypt(Owner.ebay_oauth_refresh_token) = <<22>>
    /\ Owner.ebay_oauth_token_expiry # Null

\* C34 as claimed: in every bundle a pass attaches, ebayOAuthConnected is true
\* exactly when ebayOAuthToken is a string that is not empty; a stored access
\* token that does not decrypt gives a disconnected bundle
C34_ConnectedIffToken ==
    resolved.attached
    => (resolved.userConfig.ebayOAuthConnected
          <=> Truthy(resolved.userConfig.ebayOAuthToken))

\* C35 as claimed: a row whose four OAuth columns are null, as a disconnect
\* leaves them, gets an OAuth column set only by the step in which a callback
\* ends in success; and a pass that reads the row while the columns are null
\* attaches a bundle with ebayOAuthConnected false
C35_DisconnectedUntilCallback ==
    [][/\ (/\ NoOAuth(Owner)
            /\ ~NoOAuth(users'[OwnerId]))
           => (CallbackResponds /\ last'.status = "success")
       /\ (/\ NoOAuth(Owner)
            /\ resolved' # resolved
            /\ resolved'.attached /\ resolved'.calls = 0)
           => ~resolved'.userConfig.ebayOAuthConnected]_vars

\* C36 as claimed: the step in which a callback ends in success, and writes
\* the owner's OAuth columns, is taken for a session whose user has the role
\* admin in the users table
C36_ConnectedOnlyByAdmin ==
    [][(CallbackResponds /\ last'.status = "success")
       => LET uid == session[last'.sid].userId
          IN  uid \in DOMAIN users /\ users[uid].role = "admin"]_vars

\* C37 as claimed: a configuration write that is answered 403 leaves the users
\* table as it was
C37_DeniedWriteChangesNothing ==
    [][\A sid \in Sids :
          (/\ session[sid].userId # 0
           /\ last'.kind = "config_put"
           /\ last'.status \in {"403_keys", "403_template"})
          => \A body \in ConfigBodies :
               ConfigWrite(sid, body) => users' = users]_vars


\* the rows of the account a row belongs to
AccountOf(u) == {a \in DOMAIN users : users[a].account_id = users[u].account_id}

\* C38 as claimed: every account always has at least one admin: whatever role changes
\* and deletions the admins of an account request, also two of them at the
\* same time, some row of the account keeps the role admin
C38_AccountKeepsAnAdmin ==
    \A u \in DOMAIN users : \E a \in AccountOf(u) : users[a].role = "admin"

\* a signup is between its INSERT and its UPDATE
SignupInFlight == \E r \in Slots : reqs[r].pc = "signup"

\* the row's account_id names a row that is its own owner
HasOwner(u) ==
    /\ users[u].account_id \in DOMAIN users
    /\ users[users[u].account_id].account_id = users[u].account_id

\* C39 as claimed: every user row has an existing owner: once no signup is between its
\* two statements, each row's account_id is the id of a row whose own
\* account_id equals its id, so the middleware's join finds a row for it
C39_EveryUserHasOwner ==
    ~SignupInFlight => \A u \in DOMAIN users : HasOwner(u) /\ HasRow(u)

\* a step in which a configuration write is answered
ConfigResponds == last'.kind = "config_put" /\ last' # last

\* C40: the two credential systems are stored apart.  A step that changes the
\* manual triplet of a row is the answer to a configuration write, so no
\* callback, refresh or disconnect changes it; such a step leaves the row's
\* four OAuth columns as they were, and no step that answers a configuration
\* write changes an OAuth column of any row
C40_CredentialSystemsApart ==
    [][\A u \in DOMAIN users \cap DOMAIN users' :
          /\ StoredTriplet(users'[u]) # StoredTriplet(users[u])
               => /\ ConfigResponds
                  /\ OAuthColumns(users'[u]) = OAuthColumns(users[u])
          /\ OAuthColumns(users'[u]) # OAuthColumns(users[u])
               => /\ ~ConfigResponds
                  /\ StoredTriplet(users'[u]) = StoredTriplet(users[u])]_vars

\* a successful callback has connected an account whose manual keys are stored
C40_Witness ==
    /\ last.kind = "callback" /\ last.status = "success"
    /\ Owner.ebay_token # Null
    /\ Owner.ebay_oauth_access_token # Null

====
